---------------------------- MODULE Spec2Model ----------------------------
(***************************************************************************)
(* A model of the wordle-solver core: the pattern codec (wordle/utils.py,  *)
(* wordle/feedback.py), the scoring used by the solver                      *)
(* (wordle/strategies.py), the Solver (wordle/solver.py) and the game loop *)
(* of the engine (wordle/engine.py).                                        *)
(*                                                                         *)
(* A word is a sequence of byte values (97..122); Python's 0-based index i *)
(* is index i+1 here.  A dict is a function whose DOMAIN is its key set.   *)
(***************************************************************************)
EXTENDS Integers, Sequences, FiniteSets, TLC

----------------------------------------------------------------------------
(* Bounds of the model. *)

\* Word length of the exhaustively enumerated small-alphabet words.
WordLen == 3
\* Number of letters ("a", "b", ...) of that small alphabet.
NumLetters == 2
\* Longest word list handed to the list functions of the codec.
MaxList == 2

----------------------------------------------------------------------------
(* Python built-ins. *)

\* for i in range(lo, hi): acc = body(acc, i)
RECURSIVE ForRange(_, _, _, _)
ForRange(body(_, _), acc, lo, hi) ==
    IF lo >= hi THEN acc
    ELSE LET next == body(acc, lo)
         \* next = next has TLC compute one pass before it goes on to the following
         IN  IF next = next THEN ForRange(body, next, lo + 1, hi) ELSE acc

\* for x in seq: acc = body(acc, x)
ForEach(body(_, _), acc, seq) ==
    ForRange(LAMBDA a, k : body(a, seq[k + 1]), acc, 0, Len(seq))

\* d.get(k, default)
Get(d, k, default) == IF k \in DOMAIN d THEN d[k] ELSE default

\* d[k] = v
Put(d, k, v) == [x \in DOMAIN d \cup {k} |-> IF x = k THEN v ELSE d[x]]

\* {} : the empty dict
EmptyDict == [x \in {} |-> 0]

\* base ** exp
RECURSIVE Pow(_, _)
Pow(base, exp) == IF exp = 0 THEN 1 ELSE base * Pow(base, exp - 1)

\* [v] * n
Repeat(v, n) == [i \in 1..n |-> v]

----------------------------------------------------------------------------
(* wordle/utils.py *)

GREY == 0
YELLOW == 1
GREEN == 2

DEFAULT_WORD_LENGTH == 5
DEFAULT_MAX_TURNS == 6

\* A faulty variant of all_green_pattern: the "- 1" is forgotten.
all_green_pattern_OffByOne(word_length) == Pow(3, word_length)

all_green_pattern(word_length) == Pow(3, word_length) - 1

\* A faulty variant of pattern_to_tiles: tiles.reverse() is forgotten.
pattern_to_tiles_NoReverse(pattern, word_length) ==
    ForRange(LAMBDA s, k : [tiles   |-> Append(s.tiles, s.pattern % 3),
                            pattern |-> s.pattern \div 3],
             [tiles |-> <<>>, pattern |-> pattern], 0, word_length).tiles

\* tiles.append(pattern % 3); pattern //= 3, word_length times; then reverse.
pattern_to_tiles(pattern, word_length) ==
    LET st == ForRange(LAMBDA s, k : [tiles   |-> Append(s.tiles, s.pattern % 3),
                                       pattern |-> s.pattern \div 3],
                       [tiles |-> <<>>, pattern |-> pattern], 0, word_length)
    IN  [i \in 1..Len(st.tiles) |-> st.tiles[Len(st.tiles) + 1 - i]]

tiles_to_pattern(tiles) ==
    ForEach(LAMBDA pattern, t : pattern * 3 + t, 0, tiles)

----------------------------------------------------------------------------
(* wordle/feedback.py *)

ORD_A == 97

\* The scratch tables of one pattern computation.
NewScratch(word_length) ==
    [counts |-> [c \in 0..25 |-> 0], result |-> Repeat(0, word_length)]

\* A faulty variant of compute_pattern: pass 2 does not consume the letter it credits.
compute_pattern_NoConsume(guess, secret, word_length) ==
    LET s0 == NewScratch(word_length)
        s1 == ForRange(LAMBDA s, i :
                  [s EXCEPT !.counts[secret[i + 1] - ORD_A] = @ + 1],
                  s0, 0, word_length)
        s2 == ForRange(LAMBDA s, i :
                  IF guess[i + 1] = secret[i + 1]
                  THEN [s EXCEPT !.result[i + 1] = 2,
                                 !.counts[guess[i + 1] - ORD_A] = @ - 1]
                  ELSE s,
                  s1, 0, word_length)
        s3 == ForRange(LAMBDA s, i :
                  IF s.result[i + 1] = 0 /\ s.counts[guess[i + 1] - ORD_A] > 0
                  THEN [s EXCEPT !.result[i + 1] = 1]
                  ELSE s,
                  s2, 0, word_length)
    IN  ForEach(LAMBDA pattern, v : pattern * 3 + v, 0, s3.result)

compute_pattern(guess, secret, word_length) ==
    LET s0 == NewScratch(word_length)
        \* Count letters in secret
        s1 == ForRange(LAMBDA s, i :
                  [s EXCEPT !.counts[secret[i + 1] - ORD_A] = @ + 1],
                  s0, 0, word_length)
        \* Pass 1: greens
        s2 == ForRange(LAMBDA s, i :
                  IF guess[i + 1] = secret[i + 1]
                  THEN [s EXCEPT !.result[i + 1] = 2,
                                 !.counts[guess[i + 1] - ORD_A] = @ - 1]
                  ELSE s,
                  s1, 0, word_length)
        \* Pass 2: yellows
        s3 == ForRange(LAMBDA s, i :
                  IF s.result[i + 1] = 0 /\ s.counts[guess[i + 1] - ORD_A] > 0
                  THEN [s EXCEPT !.result[i + 1] = 1,
                                 !.counts[guess[i + 1] - ORD_A] = @ - 1]
                  ELSE s,
                  s2, 0, word_length)
    IN  \* Encode as base-3 integer (MSB = position 0)
        ForEach(LAMBDA pattern, v : pattern * 3 + v, 0, s3.result)

\* A faulty variant of compute_pattern_batch_p: pass 1 does not consume the letter
\* it matches.
compute_pattern_batch_p_NoGreenConsume(guess, secret, word_length) ==
    LET s0 == NewScratch(word_length)
        s1 == ForRange(LAMBDA s, i :
                  [s EXCEPT !.counts[secret[i + 1] - ORD_A] = @ + 1],
                  s0, 0, word_length)
        s2 == ForRange(LAMBDA s, i :
                  IF guess[i + 1] = secret[i + 1]
                  THEN [s EXCEPT !.result[i + 1] = 2]
                  ELSE s,
                  s1, 0, word_length)
        s3 == ForRange(LAMBDA s, i :
                  IF s.result[i + 1] = 0 /\ s.counts[guess[i + 1] - ORD_A] > 0
                  THEN [s EXCEPT !.result[i + 1] = 1,
                                 !.counts[guess[i + 1] - ORD_A] = @ - 1]
                  ELSE s,
                  s2, 0, word_length)
    IN  ForEach(LAMBDA p, v : p * 3 + v, 0, s3.result)

\* The body of compute_pattern_batch's loop over the candidates.
compute_pattern_batch_p(guess, secret, word_length) ==
    LET s0 == NewScratch(word_length)
        s1 == ForRange(LAMBDA s, i :
                  [s EXCEPT !.counts[secret[i + 1] - ORD_A] = @ + 1],
                  s0, 0, word_length)
        s2 == ForRange(LAMBDA s, i :
                  IF guess[i + 1] = secret[i + 1]
                  THEN [s EXCEPT !.result[i + 1] = 2,
                                 !.counts[guess[i + 1] - ORD_A] = @ - 1]
                  ELSE s,
                  s1, 0, word_length)
        s3 == ForRange(LAMBDA s, i :
                  IF s.result[i + 1] = 0 /\ s.counts[guess[i + 1] - ORD_A] > 0
                  THEN [s EXCEPT !.result[i + 1] = 1,
                                 !.counts[guess[i + 1] - ORD_A] = @ - 1]
                  ELSE s,
                  s2, 0, word_length)
    IN  ForEach(LAMBDA p, v : p * 3 + v, 0, s3.result)

compute_pattern_batch(guess, candidates, word_length) ==
    ForEach(LAMBDA patterns, secret :
                Append(patterns, compute_pattern_batch_p(guess, secret, word_length)),
            <<>>, candidates)

\* The body of bucket_sizes's loop over the candidates.
bucket_sizes_p(guess, secret, word_length) ==
    LET s0 == NewScratch(word_length)
        s1 == ForRange(LAMBDA s, i :
                  [s EXCEPT !.counts[secret[i + 1] - ORD_A] = @ + 1],
                  s0, 0, word_length)
        s2 == ForRange(LAMBDA s, i :
                  IF guess[i + 1] = secret[i + 1]
                  THEN [s EXCEPT !.result[i + 1] = 2,
                                 !.counts[guess[i + 1] - ORD_A] = @ - 1]
                  ELSE s,
                  s1, 0, word_length)
        s3 == ForRange(LAMBDA s, i :
                  IF s.result[i + 1] = 0 /\ s.counts[guess[i + 1] - ORD_A] > 0
                  THEN [s EXCEPT !.result[i + 1] = 1,
                                 !.counts[guess[i + 1] - ORD_A] = @ - 1]
                  ELSE s,
                  s2, 0, word_length)
    IN  ForEach(LAMBDA p, v : p * 3 + v, 0, s3.result)

\* A faulty variant of bucket_sizes: a pattern seen again restarts its count.
bucket_sizes_NoAccumulate(guess, candidates, word_length) ==
    ForEach(LAMBDA buckets, secret :
                LET p == bucket_sizes_p(guess, secret, word_length)
                IN  Put(buckets, p, 1),
            EmptyDict, candidates)

bucket_sizes(guess, candidates, word_length) ==
    ForEach(LAMBDA buckets, secret :
                LET p == bucket_sizes_p(guess, secret, word_length)
                IN  Put(buckets, p, Get(buckets, p, 0) + 1),
            EmptyDict, candidates)

\* The body of bucket_by_pattern's loop over the candidates.
bucket_by_pattern_p(guess, secret, word_length) ==
    LET s0 == NewScratch(word_length)
        s1 == ForRange(LAMBDA s, i :
                  [s EXCEPT !.counts[secret[i + 1] - ORD_A] = @ + 1],
                  s0, 0, word_length)
        s2 == ForRange(LAMBDA s, i :
                  IF guess[i + 1] = secret[i + 1]
                  THEN [s EXCEPT !.result[i + 1] = 2,
                                 !.counts[guess[i + 1] - ORD_A] = @ - 1]
                  ELSE s,
                  s1, 0, word_length)
        s3 == ForRange(LAMBDA s, i :
                  IF s.result[i + 1] = 0 /\ s.counts[guess[i + 1] - ORD_A] > 0
                  THEN [s EXCEPT !.result[i + 1] = 1,
                                 !.counts[guess[i + 1] - ORD_A] = @ - 1]
                  ELSE s,
                  s2, 0, word_length)
    IN  ForEach(LAMBDA p, v : p * 3 + v, 0, s3.result)

bucket_by_pattern(guess, candidates, word_length) ==
    ForEach(LAMBDA buckets, secret :
                LET p == bucket_by_pattern_p(guess, secret, word_length)
                IN  IF p \in DOMAIN buckets
                    THEN Put(buckets, p, Append(buckets[p], secret))
                    ELSE Put(buckets, p, <<secret>>),
            EmptyDict, candidates)

\* The body of filter_candidates's loop over the candidates.
filter_candidates_p(guess, secret, word_length) ==
    LET s0 == NewScratch(word_length)
        s1 == ForRange(LAMBDA s, i :
                  [s EXCEPT !.counts[secret[i + 1] - ORD_A] = @ + 1],
                  s0, 0, word_length)
        s2 == ForRange(LAMBDA s, i :
                  IF guess[i + 1] = secret[i + 1]
                  THEN [s EXCEPT !.result[i + 1] = 2,
                                 !.counts[guess[i + 1] - ORD_A] = @ - 1]
                  ELSE s,
                  s1, 0, word_length)
        s3 == ForRange(LAMBDA s, i :
                  IF s.result[i + 1] = 0 /\ s.counts[guess[i + 1] - ORD_A] > 0
                  THEN [s EXCEPT !.result[i + 1] = 1,
                                 !.counts[guess[i + 1] - ORD_A] = @ - 1]
                  ELSE s,
                  s2, 0, word_length)
    IN  ForEach(LAMBDA p, v : p * 3 + v, 0, s3.result)

\* A faulty variant of filter_candidates: the guess and the secret change places.
filter_candidates_Swapped(candidates, guess, pattern, word_length) ==
    ForEach(LAMBDA result_list, secret :
                IF filter_candidates_p(secret, guess, word_length) = pattern
                THEN Append(result_list, secret)
                ELSE result_list,
            <<>>, candidates)

\* A faulty variant of filter_candidates: the test is inverted.
filter_candidates_Inverted(candidates, guess, pattern, word_length) ==
    ForEach(LAMBDA result_list, secret :
                IF filter_candidates_p(guess, secret, word_length) # pattern
                THEN Append(result_list, secret)
                ELSE result_list,
            <<>>, candidates)

filter_candidates(candidates, guess, pattern, word_length) ==
    ForEach(LAMBDA result_list, secret :
                IF filter_candidates_p(guess, secret, word_length) = pattern
                THEN Append(result_list, secret)
                ELSE result_list,
            <<>>, candidates)

----------------------------------------------------------------------------
(* Words. *)

Letters == <<"a", "b", "c", "d", "e", "f", "g", "h", "i", "j", "k", "l", "m",
             "n", "o", "p", "q", "r", "s", "t", "u", "v", "w", "x", "y", "z">>

\* ord(ch) for a lowercase letter.
Ord(ch) == ORD_A + (CHOOSE k \in 0..25 : Letters[k + 1] = ch)

\* b"..." : the bytes of a word given letter by letter.
B(chars) == [i \in 1..Len(chars) |-> Ord(chars[i])]

batch == B(<<"b", "a", "t", "c", "h">>)
catch == B(<<"c", "a", "t", "c", "h">>)
chalk == B(<<"c", "h", "a", "l", "k">>)
hatch == B(<<"h", "a", "t", "c", "h">>)
latch == B(<<"l", "a", "t", "c", "h">>)
world == B(<<"w", "o", "r", "l", "d">>)
speed == B(<<"s", "p", "e", "e", "d">>)
abide == B(<<"a", "b", "i", "d", "e">>)
llama == B(<<"l", "l", "a", "m", "a">>)
abyss == B(<<"a", "b", "y", "s", "s">>)
banal == B(<<"b", "a", "n", "a", "l">>)
proof == B(<<"p", "r", "o", "o", "f">>)
afoot == B(<<"a", "f", "o", "o", "t">>)
eeeee == B(<<"e", "e", "e", "e", "e">>)
geese == B(<<"g", "e", "e", "s", "e">>)

\* The words over the small alphabet, of length WordLen.
SmallWords == [1..WordLen -> ORD_A..(ORD_A + NumLetters - 1)]

\* A sorted five-letter word list, as load_from_file returns one.  Four of its words
\* differ in the first letter only and two of them repeat a letter.
Vocabulary == <<batch, catch, chalk, hatch, latch>>

Range(seq) == {seq[i] : i \in 1..Len(seq)}

\* All lists of at most n members of set.
ListsUpTo(set, n) == UNION {[1..k -> set] : k \in 0..n}

\* The sublists of seq: its members at the positions of a set, in order.
RECURSIVE Pick(_, _, _)
Pick(seq, positions, k) ==
    IF k > Len(seq) THEN <<>>
    ELSE IF k \in positions THEN <<seq[k]>> \o Pick(seq, positions, k + 1)
    ELSE Pick(seq, positions, k + 1)

SubLists(seq) == {Pick(seq, ps, 1) : ps \in SUBSET (1..Len(seq))}

----------------------------------------------------------------------------
(* wordle/strategies.py *)

(***************************************************************************)
(* Scores.  A float score is modelled in fixed point, as a whole number of *)
(* units of 1e-7: a score that is a fraction is rounded toward zero once,  *)
(* at the end of its computation, so that equal fractions are equal scores *)
(* and scores less than a unit apart are never taken for far apart.        *)
(*                                                                         *)
(* Entropy.  With bucket sizes c1..ck of n candidates,                     *)
(*     H = -sum (ci/n) log2 (ci/n) = (n log2 n - sum ci log2 ci) / n       *)
(* and c log2 c is read from a table.  The floats of the code follow H to  *)
(* the last place or two: for up to 5 candidates they are ordered, ties    *)
(* included, exactly as the modelled scores are.                           *)
(***************************************************************************)

\* One: the number of units in 1.0.
SCALE == Pow(10, 7)

\* 1e-6, the bonus of score_hybrid.
EPSILON == SCALE \div 1000000

\* c * math.log2(c) in units, for c = 1..40.
C_LOG2_C ==
    <<0, 20000000, 47548875, 80000000, 116096405,
      155097750, 196514845, 240000000, 285293250, 332192809,
      380537478, 430195500, 481057163, 533029689, 586033589,
      640000000, 694868683, 750586500, 807106228, 864385619,
      922386659, 981074956, 1040419250, 1100391000, 1160964047,
      1222114327, 1283819626, 1346059378, 1408814489, 1472067179,
      1535800856, 1600000000, 1664650059, 1729737366, 1795249056,
      1861173001, 1927497745, 1994212455, 2061306865, 2128771238>>

\* a / n in units of unit, rounded toward zero, for a >= 0 and n > 0.
Ratio(a, n, unit) == (a \div n) * unit + ((a % n) * unit) \div n

\* float("-inf") and a finite float, to be compared with Greater.
NEG_INF == [finite |-> FALSE, v |-> 0]
Float(v) == [finite |-> TRUE, v |-> v]

\* a > b
Greater(a, b) == a.finite /\ (~b.finite \/ a.v > b.v)

\* STRATEGIES.keys(), in the order of registration.
STRATEGIES == <<"frequency", "entropy", "expected_size", "minimax", "hybrid">>

\* A faulty variant of get_strategy: an unknown name gives the default strategy.
get_strategy_Default(name) ==
    IF name \notin Range(STRATEGIES)
    THEN [raised |-> "no", value |-> "entropy"]
    ELSE [raised |-> "no", value |-> name]

\* get_strategy(name): the strategy, named here by its name, or a KeyError whose
\* message holds the name and list(STRATEGIES.keys()).
get_strategy(name) ==
    IF name \notin Range(STRATEGIES)
    THEN [raised |-> "KeyError", unknown |-> name, available |-> STRATEGIES]
    ELSE [raised |-> "no", value |-> name]

\* for count in d.values(): acc = body(acc, count), in any order of the keys
RECURSIVE FoldValues(_, _, _, _)
FoldValues(body(_, _), acc, d, keys) ==
    IF keys = {} THEN acc
    ELSE LET k == CHOOSE x \in keys : TRUE
         IN  FoldValues(body, body(acc, d[k]), d, keys \ {k})

\* The letter statistics of score_frequency: pos_freq and presence_count.
score_frequency_stats(candidates, word_length) ==
    ForEach(LAMBDA st, w :
                ForRange(LAMBDA a, i :
                             [pos_freq       |-> [a.pos_freq EXCEPT ![i] =
                                                     Put(@, w[i + 1], Get(@, w[i + 1], 0) + 1)],
                              presence_count |-> IF w[i + 1] \notin a.seen
                                                 THEN Put(a.presence_count, w[i + 1],
                                                          Get(a.presence_count, w[i + 1], 0) + 1)
                                                 ELSE a.presence_count,
                              seen           |-> a.seen \cup {w[i + 1]}],
                         [st EXCEPT !.seen = {}], 0, word_length),
            [pos_freq       |-> [i \in 0..(word_length - 1) |-> EmptyDict],
             presence_count |-> EmptyDict,
             seen           |-> {}],
            candidates)

\* The scoring loop of score_frequency and what follows it.  tenths counts
\* w_pos = 1.0 as 10 and w_presence = 0.5 as 5, each to be divided by n.
score_frequency_score(guess, st, n, word_length, is_candidate) ==
    LET sc == ForRange(LAMBDA a, i :
                           [tenths |-> a.tenths
                                       + 10 * Get(st.pos_freq[i], guess[i + 1], 0)
                                       + (IF guess[i + 1] \notin a.seen_in_guess
                                          THEN 5 * Get(st.presence_count, guess[i + 1], 0)
                                          ELSE 0),
                            seen_in_guess |-> a.seen_in_guess \cup {guess[i + 1]}],
                       [tenths |-> 0, seen_in_guess |-> {}], 0, word_length)
        duplicates == word_length - Cardinality(sc.seen_in_guess)
    IN  Float(Ratio(sc.tenths, n, SCALE \div 10)
              - 3 * (SCALE \div 10) * duplicates       \* w_dup = 0.3
              + (IF is_candidate THEN SCALE \div 10 ELSE 0))

score_frequency(guess, candidates, word_length) ==
    IF Len(candidates) = 0 THEN Float(0)
    ELSE score_frequency_score(guess, score_frequency_stats(candidates, word_length),
                               Len(candidates), word_length,
                               guess \in Range(candidates))

\* The letter statistics of score_frequency_batch.
score_frequency_batch_stats(candidates, word_length) ==
    ForEach(LAMBDA st, w :
                ForRange(LAMBDA a, i :
                             [pos_freq       |-> [a.pos_freq EXCEPT ![i] =
                                                     Put(@, w[i + 1], Get(@, w[i + 1], 0) + 1)],
                              presence_count |-> IF w[i + 1] \notin a.seen
                                                 THEN Put(a.presence_count, w[i + 1],
                                                          Get(a.presence_count, w[i + 1], 0) + 1)
                                                 ELSE a.presence_count,
                              seen           |-> a.seen \cup {w[i + 1]}],
                         [st EXCEPT !.seen = {}], 0, word_length),
            [pos_freq       |-> [i \in 0..(word_length - 1) |-> EmptyDict],
             presence_count |-> EmptyDict,
             seen           |-> {}],
            candidates)

\* The score score_frequency_batch gives a guess of the pool.
score_frequency_batch_score(guess, st, n, word_length, is_candidate) ==
    LET sc == ForRange(LAMBDA a, i :
                           [tenths |-> a.tenths
                                       + 10 * Get(st.pos_freq[i], guess[i + 1], 0)
                                       + (IF guess[i + 1] \notin a.seen_in_guess
                                          THEN 5 * Get(st.presence_count, guess[i + 1], 0)
                                          ELSE 0),
                            seen_in_guess |-> a.seen_in_guess \cup {guess[i + 1]}],
                       [tenths |-> 0, seen_in_guess |-> {}], 0, word_length)
        duplicates == word_length - Cardinality(sc.seen_in_guess)
    IN  Float(Ratio(sc.tenths, n, SCALE \div 10)
              - 3 * (SCALE \div 10) * duplicates
              + (IF is_candidate THEN SCALE \div 10 ELSE 0))

\* One pass of the loop of score_frequency_batch over the pool: b is (best_score,
\* best_guess, best_is_candidate).
score_frequency_batch_step(b, guess, score, g_is_candidate) ==
    IF \/ Greater(score, b.best_score)
       \/ /\ score = b.best_score
          /\ g_is_candidate
          /\ ~b.best_is_candidate
    THEN [best_score        |-> score,
          best_guess        |-> guess,
          best_is_candidate |-> g_is_candidate]
    ELSE b

\* score_frequency_batch once the statistics st are there.
score_frequency_batch_loop(pool, candidate_set, st, n, word_length) ==
    ForEach(LAMBDA b, guess :
                score_frequency_batch_step(
                    b, guess,
                    score_frequency_batch_score(guess, st, n, word_length,
                                                guess \in candidate_set),
                    guess \in candidate_set),
            [best_score        |-> NEG_INF,
             best_guess        |-> pool[1],
             best_is_candidate |-> FALSE],
            pool).best_guess

\* score_frequency_batch(pool, candidates, word_length), for a pool that is not
\* empty.
score_frequency_batch(pool, candidates, word_length) ==
    IF Len(candidates) = 0 THEN pool[1]
    ELSE score_frequency_batch_loop(pool, Range(candidates),
                                    score_frequency_batch_stats(candidates, word_length),
                                    Len(candidates), word_length)

\* A faulty variant of entropy_of: the sum is not divided by n.
entropy_of_NotNormalised(buckets, n) ==
    Float(C_LOG2_C[n]
          - FoldValues(LAMBDA acc, count : acc + C_LOG2_C[count],
                       0, buckets, DOMAIN buckets))

\* The loop of score_entropy over buckets.values().
entropy_of(buckets, n) ==
    Float((C_LOG2_C[n]
           - FoldValues(LAMBDA acc, count : acc + C_LOG2_C[count],
                        0, buckets, DOMAIN buckets)) \div n)

score_entropy(guess, candidates, word_length) ==
    IF Len(candidates) <= 1 THEN Float(0)
    ELSE entropy_of(bucket_sizes(guess, candidates, word_length), Len(candidates))

\* A faulty variant of expected_size_of: the bucket sizes are not squared.
expected_size_of_NotSquared(buckets, n) ==
    Float(-Ratio(FoldValues(LAMBDA acc, c : acc + c, 0, buckets, DOMAIN buckets),
                 n, SCALE))

\* -(sum_sq / n)
expected_size_of(buckets, n) ==
    Float(-Ratio(FoldValues(LAMBDA acc, c : acc + c * c, 0, buckets, DOMAIN buckets),
                 n, SCALE))

score_expected_size(guess, candidates, word_length) ==
    IF Len(candidates) <= 1 THEN Float(0)
    ELSE expected_size_of(bucket_sizes(guess, candidates, word_length), Len(candidates))

\* A faulty variant of minimax_of: the smallest bucket is taken.
minimax_of_Smallest(buckets) ==
    Float(-(SCALE * FoldValues(LAMBDA acc, c : IF acc = 0 \/ c < acc THEN c ELSE acc,
                               0, buckets, DOMAIN buckets)))

\* -max(buckets.values())
minimax_of(buckets) ==
    Float(-(SCALE * FoldValues(LAMBDA acc, c : IF c > acc THEN c ELSE acc,
                               0, buckets, DOMAIN buckets)))

score_minimax(guess, candidates, word_length) ==
    IF candidates = <<>> THEN Float(0)
    ELSE minimax_of(bucket_sizes(guess, candidates, word_length))

\* base += 1e-6 if guess in candidates
score_hybrid_bonus(base, is_candidate) ==
    IF is_candidate THEN Float(base.v + EPSILON) ELSE base

score_hybrid(guess, candidates, word_length, turn, max_turns) ==
    score_hybrid_bonus(IF max_turns - turn + 1 <= 2
                       THEN score_minimax(guess, candidates, word_length)
                       ELSE score_entropy(guess, candidates, word_length),
                       guess \in Range(candidates))

----------------------------------------------------------------------------
(* wordle/solver.py *)

\* hash(tuple(solutions)): two different lists are taken to hash differently.
Hash(solutions) == solutions

\* Solver(solutions, guesses, strategy, word_length, max_turns, hard_mode)
Solver__init__(solutions, guesses, strategy, word_length, max_turns, hard_mode) ==
    [word_length       |-> word_length,
     max_turns         |-> max_turns,
     hard_mode         |-> hard_mode,
     strategy_name     |-> strategy,
     initial_solutions |-> solutions,
     initial_guesses   |-> guesses,
     candidates        |-> solutions,
     guess_pool        |-> guesses,
     history           |-> <<>>,
     solutions_hash    |-> Hash(solutions)]

\* A faulty variant of reset: the guess pool is not restored.
reset_KeepsPool(self) ==
    [self EXCEPT !.candidates = self.initial_solutions,
                 !.history    = <<>>]

\* A faulty variant of reset: the history is not cleared.
reset_KeepsHistory(self) ==
    [self EXCEPT !.candidates = self.initial_solutions,
                 !.guess_pool = self.initial_guesses]

reset(self) ==
    [self EXCEPT !.candidates = self.initial_solutions,
                 !.guess_pool = self.initial_guesses,
                 !.history    = <<>>]

FULL_POOL_MAX_CANDIDATES == 300
FULL_POOL_MAX_COST == 2000000

\* A faulty variant of _select_guess_pool: frequency is given the full pool too.
select_guess_pool_FrequencyFull(self, turn) ==
    LET n == Len(self.candidates)
    IN  IF n <= 2 \/ n > FULL_POOL_MAX_CANDIDATES THEN self.candidates
        ELSE IF Len(self.guess_pool) * n <= FULL_POOL_MAX_COST THEN self.guess_pool
        ELSE self.candidates

\* A faulty variant of _select_guess_pool: the full pool at a cost below the limit only.
select_guess_pool_StrictCost(self, turn) ==
    LET n == Len(self.candidates)
    IN  IF n <= 2 \/ n > FULL_POOL_MAX_CANDIDATES THEN self.candidates
        ELSE IF /\ self.strategy_name \in {"entropy", "expected_size", "hybrid", "minimax"}
                /\ Len(self.guess_pool) * n < FULL_POOL_MAX_COST
             THEN self.guess_pool
             ELSE self.candidates

select_guess_pool(self, turn) ==
    LET n == Len(self.candidates)
        full_pool_size == Len(self.guess_pool)
    IN  IF n <= 2 THEN self.candidates
        ELSE IF n > FULL_POOL_MAX_CANDIDATES THEN self.candidates
        ELSE IF /\ self.strategy_name \in {"entropy", "expected_size", "hybrid", "minimax"}
                /\ full_pool_size * n <= FULL_POOL_MAX_COST
             THEN self.guess_pool
             ELSE self.candidates

score_guess(self, guess, turn) ==
    CASE self.strategy_name = "entropy" ->
            score_entropy(guess, self.candidates, self.word_length)
      [] self.strategy_name = "expected_size" ->
            score_expected_size(guess, self.candidates, self.word_length)
      [] self.strategy_name = "minimax" ->
            score_minimax(guess, self.candidates, self.word_length)
      [] self.strategy_name = "hybrid" ->
            score_hybrid(guess, self.candidates, self.word_length, turn, self.max_turns)
      [] self.strategy_name = "frequency" ->
            score_frequency(guess, self.candidates, self.word_length)

\* A faulty variant of the pass of the loop: an equal score never replaces the best.
score_pool_step_NoPreference(b, g, score, g_is_candidate) ==
    IF Greater(score, b.best_score)
    THEN [best_score        |-> score,
          best_guess        |-> g,
          best_is_candidate |-> g_is_candidate]
    ELSE b

\* One pass of the loop of _score_pool: b is (best_score, best_guess,
\* best_is_candidate), g the word of the pool and score its score.
score_pool_step(b, g, score, g_is_candidate) ==
    IF \/ Greater(score, b.best_score)
       \/ /\ score = b.best_score
          /\ g_is_candidate
          /\ ~b.best_is_candidate
    THEN [best_score        |-> score,
          best_guess        |-> g,
          best_is_candidate |-> g_is_candidate]
    ELSE b

RECURSIVE score_pool_loop(_, _, _, _, _, _)
score_pool_loop(self, pool, turn, candidate_set, b, k) ==
    IF k > Len(pool) THEN b
    ELSE score_pool_loop(self, pool, turn, candidate_set,
                         score_pool_step(b, pool[k], score_guess(self, pool[k], turn),
                                         pool[k] \in candidate_set),
                         k + 1)

score_pool(self, pool, turn) ==
    score_pool_loop(self, pool, turn, Range(self.candidates),
                    [best_score        |-> NEG_INF,
                     best_guess        |-> pool[1],
                     best_is_candidate |-> FALSE],
                    1).best_guess

\* What best_guess does: raises ValueError, or returns value; cache is
\* _first_guess_cache after the call.
Raise(error, cache) == [raised |-> error, cache |-> cache]
Return(value, cache) == [raised |-> "no", value |-> value, cache |-> cache]

\* A faulty variant of best_guess: it always submits the first word of the pool.
best_guess_FirstOfPool(self, turn, cache) ==
    IF Len(self.guess_pool) = 0
    THEN Raise("IndexError", cache)
    ELSE Return(self.guess_pool[1], cache)

\* A faulty variant of the end of best_guess: nothing is stored.
best_guess_cached_Never(first, cache, cache_key, best) == Return(best, cache)

\* The end of best_guess: the best word of the pool is cached on a first guess.
best_guess_cached(first, cache, cache_key, best) ==
    IF first THEN Return(best, Put(cache, cache_key, best)) ELSE Return(best, cache)

\* best_guess once the pool is chosen.
best_guess_scored(self, turn, cache, cache_key, first, pool) ==
    IF Len(pool) = 0 THEN Raise("IndexError", cache)  \* pool[0]
    ELSE best_guess_cached(first, cache, cache_key,
                           IF self.strategy_name = "frequency"
                           THEN score_frequency_batch(pool, self.candidates,
                                                      self.word_length)
                           ELSE score_pool(self, pool, turn))

\* A faulty variant of best_guess: at turn 1 the cache is looked at first, however
\* many candidates are left.
best_guess_CacheAtTurnOne(self, turn, cache) ==
    LET n == Len(self.candidates)
        cache_key == <<self.strategy_name, self.word_length, self.solutions_hash>>
        first == turn = 1 /\ n = Len(self.initial_solutions)
    IN  IF n = 0 THEN Raise("ValueError", cache)
        ELSE IF turn = 1 /\ cache_key \in DOMAIN cache THEN Return(cache[cache_key], cache)
        ELSE IF n = 1 THEN Return(self.candidates[1], cache)
        ELSE IF n = 2 THEN Return(self.candidates[1], cache)
        ELSE best_guess_scored(self, turn, cache, cache_key, first,
                               select_guess_pool(self, turn))

\* A faulty variant of best_guess: the empty candidate list is not looked for.
best_guess_NoEmptyCheck(self, turn, cache) ==
    LET n == Len(self.candidates)
        cache_key == <<self.strategy_name, self.word_length, self.solutions_hash>>
        first == turn = 1 /\ n = Len(self.initial_solutions)
    IN  IF n = 1 THEN Return(self.candidates[1], cache)
        ELSE IF n = 2 THEN Return(self.candidates[1], cache)
        ELSE IF first /\ cache_key \in DOMAIN cache THEN Return(cache[cache_key], cache)
        ELSE best_guess_scored(self, turn, cache, cache_key, first,
                               select_guess_pool(self, turn))

best_guess(self, turn, cache) ==
    LET n == Len(self.candidates)
        cache_key == <<self.strategy_name, self.word_length, self.solutions_hash>>
        first == turn = 1 /\ n = Len(self.initial_solutions)
    IN  IF n = 0 THEN Raise("ValueError", cache)
        ELSE IF n = 1 THEN Return(self.candidates[1], cache)
        ELSE IF n = 2 THEN Return(self.candidates[1], cache)
        ELSE IF first /\ cache_key \in DOMAIN cache THEN Return(cache[cache_key], cache)
        ELSE best_guess_scored(self, turn, cache, cache_key, first,
                               select_guess_pool(self, turn))

\* A faulty variant of update: the guess pool is filtered in normal mode too.
update_AlwaysFilterPool(self, guess, pattern) ==
    [self EXCEPT
        !.history    = Append(@, <<guess, pattern>>),
        !.candidates = filter_candidates(@, guess, pattern, self.word_length),
        !.guess_pool = filter_candidates(@, guess, pattern, self.word_length)]

\* A faulty variant of update: the candidates are filtered from the initial solutions.
update_FromInitial(self, guess, pattern) ==
    [self EXCEPT
        !.history    = Append(@, <<guess, pattern>>),
        !.candidates = filter_candidates(self.initial_solutions, guess, pattern,
                                         self.word_length),
        !.guess_pool = IF self.hard_mode
                       THEN filter_candidates(@, guess, pattern, self.word_length)
                       ELSE @]

update(self, guess, pattern) ==
    [self EXCEPT
        !.history    = Append(@, <<guess, pattern>>),
        !.candidates = filter_candidates(@, guess, pattern, self.word_length),
        !.guess_pool = IF self.hard_mode
                       THEN filter_candidates(@, guess, pattern, self.word_length)
                       ELSE @]

----------------------------------------------------------------------------
(* wordle/engine.py *)

\* valid_guesses: None, or a set of words.
None == [none |-> TRUE, words |-> {}]
Some(words) == [none |-> FALSE, words |-> words]

\* GameState(secret, word_length, max_turns)
GameState(secret, word_length, max_turns) ==
    [secret      |-> secret,
     word_length |-> word_length,
     max_turns   |-> max_turns,
     guesses     |-> <<>>,
     finished    |-> FALSE,
     won         |-> FALSE]

turns_used(state) == Len(state.guesses)

\* WordleEngine(secret, word_length, max_turns, hard_mode, valid_guesses), for a
\* secret of word_length letters; valid_guesses is a list or None.
WordleEngine__init__(secret, word_length, max_turns, hard_mode, valid_guesses) ==
    [secret           |-> secret,
     word_length      |-> word_length,
     max_turns        |-> max_turns,
     hard_mode        |-> hard_mode,
     valid_guesses    |-> IF valid_guesses.none \/ valid_guesses.words = <<>>
                          THEN None
                          ELSE Some(Range(valid_guesses.words)),
     win_pattern      |-> all_green_pattern(word_length),
     state            |-> GameState(secret, word_length, max_turns),
     known_green      |-> EmptyDict,
     known_yellow     |-> EmptyDict,
     required_letters |-> EmptyDict]

\* A faulty variant of _validate_hard_mode: the required letters are not looked at.
validate_hard_mode_GreenOnly(self, word) ==
    \A pos \in DOMAIN self.known_green : word[pos + 1] = self.known_green[pos]

\* _validate_hard_mode(word) returns (TRUE) or raises ValueError (FALSE).
validate_hard_mode(self, word) ==
    /\ \A pos \in DOMAIN self.known_green : word[pos + 1] = self.known_green[pos]
    /\ LET word_counts == ForEach(LAMBDA wc, b : Put(wc, b, Get(wc, b, 0) + 1),
                                  EmptyDict, word)
       IN  \A letter \in DOMAIN self.required_letters :
               Get(word_counts, letter, 0) >= self.required_letters[letter]

\* The second loop of _update_hard_mode_constraints, over letter_counts.items().
raise_required(required_letters, letter_counts) ==
    [letter \in DOMAIN required_letters \cup DOMAIN letter_counts |->
        IF letter \in DOMAIN letter_counts
        THEN IF Get(required_letters, letter, 0) >= letter_counts[letter]
             THEN Get(required_letters, letter, 0)
             ELSE letter_counts[letter]
        ELSE required_letters[letter]]

\* A faulty variant of _update_hard_mode_constraints: grey letters are required too.
update_hard_mode_constraints_CountsGrey(self, word, tiles) ==
    LET st == ForRange(LAMBDA acc, i :
                  [known_green   |-> IF tiles[i + 1] = 2
                                     THEN Put(acc.known_green, i, word[i + 1])
                                     ELSE acc.known_green,
                   letter_counts |-> Put(acc.letter_counts, word[i + 1],
                                         Get(acc.letter_counts, word[i + 1], 0) + 1)],
                  [known_green |-> self.known_green, letter_counts |-> EmptyDict],
                  0, Len(tiles))
    IN  [self EXCEPT !.known_green = st.known_green,
                     !.required_letters = raise_required(@, st.letter_counts)]

\* _update_hard_mode_constraints(word, pattern), given tiles = pattern_to_tiles(pattern).
update_hard_mode_constraints(self, word, tiles) ==
    LET st == ForRange(LAMBDA acc, i :
                  IF tiles[i + 1] = 2
                  THEN [known_green   |-> Put(acc.known_green, i, word[i + 1]),
                        letter_counts |-> Put(acc.letter_counts, word[i + 1],
                                              Get(acc.letter_counts, word[i + 1], 0) + 1)]
                  ELSE IF tiles[i + 1] = 1
                  THEN [acc EXCEPT !.letter_counts =
                                      Put(@, word[i + 1], Get(@, word[i + 1], 0) + 1)]
                  ELSE acc,
                  [known_green |-> self.known_green, letter_counts |-> EmptyDict],
                  0, Len(tiles))
    IN  [self EXCEPT !.known_green = st.known_green,
                     !.required_letters = raise_required(@, st.letter_counts)]

\* What guess does: raises ValueError and leaves the engine as it is, or returns a
\* GuessResult and a changed engine.
Rejected(self) == [raised |-> "ValueError", engine |-> self]

\* A faulty variant of guess: the game goes on for one turn past max_turns.
guess_accepted_OneTurnMore(self, word, pattern) ==
    LET is_correct == pattern = self.win_pattern
        turn == turns_used(self.state) + 1
        result == [guess |-> word, pattern |-> pattern,
                   is_correct |-> is_correct, turn |-> turn]
        recorded == [self EXCEPT
                        !.state.guesses  = Append(@, result),
                        !.state.won      = IF is_correct THEN TRUE ELSE @,
                        !.state.finished = IF is_correct \/ turn > self.max_turns
                                           THEN TRUE ELSE @]
    IN  [raised |-> "no",
         result |-> result,
         engine |-> IF self.hard_mode
                    THEN update_hard_mode_constraints(
                             recorded, word, pattern_to_tiles(pattern, self.word_length))
                    ELSE recorded]

\* guess(word) from the pattern on, the checks passed.
guess_accepted(self, word, pattern) ==
    LET is_correct == pattern = self.win_pattern
        turn == turns_used(self.state) + 1
        result == [guess |-> word, pattern |-> pattern,
                   is_correct |-> is_correct, turn |-> turn]
        recorded == [self EXCEPT
                        !.state.guesses  = Append(@, result),
                        !.state.won      = IF is_correct THEN TRUE ELSE @,
                        !.state.finished = IF is_correct \/ turn >= self.max_turns
                                           THEN TRUE ELSE @]
    IN  [raised |-> "no",
         result |-> result,
         engine |-> IF self.hard_mode
                    THEN update_hard_mode_constraints(
                             recorded, word, pattern_to_tiles(pattern, self.word_length))
                    ELSE recorded]

guess(self, word) ==
    IF self.state.finished THEN Rejected(self)
    ELSE IF Len(word) # self.word_length THEN Rejected(self)
    ELSE IF ~self.valid_guesses.none /\ word \notin self.valid_guesses.words
         THEN Rejected(self)
    ELSE IF self.hard_mode /\ self.state.guesses # <<>> /\ ~validate_hard_mode(self, word)
         THEN Rejected(self)
    ELSE guess_accepted(self, word, compute_pattern(word, self.secret, self.word_length))

----------------------------------------------------------------------------
(* State. *)

VARIABLES
    args,               \* the arguments of a call of a codec function
    ret,                \* the last call made and what it returned
    solver,             \* the Solver object
    first_guess_cache,  \* solver._first_guess_cache, one per process
    engine,             \* the WordleEngine of the game being played
    pc,                 \* where the benchmark's loop over the secrets is
    games,              \* the number of games started
    solvers             \* the number of Solvers constructed in this process

vars == <<args, ret, solver, first_guess_cache, engine, pc, games, solvers>>

NoArgs == [kind |-> "none"]
NoSolver == [strategy_name |-> "none"]
NoEngine == [secret |-> <<>>]
NoCall == [fn |-> "none"]

----------------------------------------------------------------------------
(* Calls of the pattern codec, each on arguments drawn at Init. *)

\* (guess, secret) over the small alphabet: every pair of words.
PairArgs ==
    {[kind |-> "words", word_length |-> WordLen, guess |-> g, words |-> <<s>>] :
        g \in SmallWords, s \in SmallWords}

\* A guess and a list of words, repeats allowed, over the vocabulary.
ListArgs ==
    {[kind |-> "words", word_length |-> DEFAULT_WORD_LENGTH, guess |-> g, words |-> S] :
        g \in Range(Vocabulary), S \in ListsUpTo(Range(Vocabulary), MaxList)}

TilesArgs ==
    {[kind |-> "tiles", word_length |-> WordLen, tiles |-> t] :
        t \in [1..WordLen -> {GREY, YELLOW, GREEN}]}

PatternArgs ==
    {[kind |-> "pattern", word_length |-> WordLen, pattern |-> p] :
        p \in 0..all_green_pattern(WordLen)}

CodecInit ==
    /\ args \in PairArgs \cup ListArgs \cup TilesArgs \cup PatternArgs
    /\ ret = NoCall
    /\ solver = NoSolver
    /\ first_guess_cache = EmptyDict
    /\ engine = NoEngine /\ pc = "none" /\ games = 0 /\ solvers = 0

CallComputePattern ==
    /\ ret = NoCall /\ args.kind = "words"
    /\ \E k \in 1..Len(args.words) :
          ret' = [fn |-> "compute_pattern", secret |-> args.words[k],
                  value |-> compute_pattern(args.guess, args.words[k], args.word_length)]
    /\ UNCHANGED <<args, solver, first_guess_cache, engine, pc, games, solvers>>

CallComputePatternBatch ==
    /\ ret = NoCall /\ args.kind = "words"
    /\ ret' = [fn |-> "compute_pattern_batch",
               value |-> compute_pattern_batch(args.guess, args.words, args.word_length)]
    /\ UNCHANGED <<args, solver, first_guess_cache, engine, pc, games, solvers>>

CallBucketSizes ==
    /\ ret = NoCall /\ args.kind = "words"
    /\ ret' = [fn |-> "bucket_sizes",
               value |-> bucket_sizes(args.guess, args.words, args.word_length)]
    /\ UNCHANGED <<args, solver, first_guess_cache, engine, pc, games, solvers>>

CallBucketByPattern ==
    /\ ret = NoCall /\ args.kind = "words"
    /\ ret' = [fn |-> "bucket_by_pattern",
               value |-> bucket_by_pattern(args.guess, args.words, args.word_length)]
    /\ UNCHANGED <<args, solver, first_guess_cache, engine, pc, games, solvers>>

\* The patterns filter_candidates is called with: every pattern of short words; of
\* five-letter words the patterns some vocabulary word gives, and the two extreme ones.
FilterPatterns(a) ==
    IF a.word_length = WordLen
    THEN 0..all_green_pattern(a.word_length)
    ELSE {0, all_green_pattern(a.word_length)} \cup
         {compute_pattern(a.guess, w, a.word_length) : w \in Range(Vocabulary)}

CallFilterCandidates ==
    /\ ret = NoCall /\ args.kind = "words"
    /\ \E pattern \in FilterPatterns(args) :
          ret' = [fn |-> "filter_candidates", pattern |-> pattern,
                  value |-> filter_candidates(args.words, args.guess, pattern,
                                              args.word_length)]
    /\ UNCHANGED <<args, solver, first_guess_cache, engine, pc, games, solvers>>

CallTilesToPattern ==
    /\ ret = NoCall /\ args.kind = "tiles"
    /\ ret' = [fn |-> "tiles_to_pattern", value |-> tiles_to_pattern(args.tiles)]
    /\ UNCHANGED <<args, solver, first_guess_cache, engine, pc, games, solvers>>

CallPatternToTiles ==
    /\ ret = NoCall /\ args.kind = "pattern"
    /\ ret' = [fn |-> "pattern_to_tiles",
               value |-> pattern_to_tiles(args.pattern, args.word_length)]
    /\ UNCHANGED <<args, solver, first_guess_cache, engine, pc, games, solvers>>

CodecNext ==
    \/ CallComputePattern
    \/ CallComputePatternBatch
    \/ CallBucketSizes
    \/ CallBucketByPattern
    \/ CallFilterCandidates
    \/ CallTilesToPattern
    \/ CallPatternToTiles

SpecCodec == CodecInit /\ [][CodecNext]_vars

----------------------------------------------------------------------------------------------------------------------------------------
(* Calls of the strategies, each on arguments drawn at Init. *)

\* 35 candidates that catch, one of them, splits 15/15/5 and speed, not one of them,
\* splits 19/13/1/1/1: two entropies less than 1e-6 apart.
CloseSplit ==
    Repeat(catch, 5) \o Repeat(llama, 14) \o <<abide>> \o Repeat(world, 13)
        \o <<proof, eeeee>>

\* (guess, candidates): a word of the vocabulary or speed, against the sub-lists of
\* the vocabulary, short lists with repeats, and CloseSplit.
ScoreArgs ==
    {[kind |-> "words", word_length |-> DEFAULT_WORD_LENGTH, guess |-> g, words |-> S] :
        g \in Range(Vocabulary) \cup {speed},
        S \in SubLists(Vocabulary) \cup ListsUpTo(Range(Vocabulary), MaxList)
                  \cup {CloseSplit}}

ScoresInit ==
    /\ args \in ScoreArgs
    /\ ret = NoCall
    /\ solver = NoSolver
    /\ first_guess_cache = EmptyDict
    /\ engine = NoEngine /\ pc = "none" /\ games = 0 /\ solvers = 0

CallScoreFrequency ==
    /\ ret' = [fn |-> "score_frequency",
               value |-> score_frequency(args.guess, args.words, args.word_length)]
    /\ UNCHANGED <<args, solver, first_guess_cache, engine, pc, games, solvers>>

CallScoreEntropy ==
    /\ ret' = [fn |-> "score_entropy",
               value |-> score_entropy(args.guess, args.words, args.word_length)]
    /\ UNCHANGED <<args, solver, first_guess_cache, engine, pc, games, solvers>>

CallScoreExpectedSize ==
    /\ ret' = [fn |-> "score_expected_size",
               value |-> score_expected_size(args.guess, args.words, args.word_length)]
    /\ UNCHANGED <<args, solver, first_guess_cache, engine, pc, games, solvers>>

CallScoreMinimax ==
    /\ ret' = [fn |-> "score_minimax",
               value |-> score_minimax(args.guess, args.words, args.word_length)]
    /\ UNCHANGED <<args, solver, first_guess_cache, engine, pc, games, solvers>>

CallScoreHybrid ==
    /\ \E turn \in 1..DEFAULT_MAX_TURNS :
          ret' = [fn |-> "score_hybrid", turn |-> turn, max_turns |-> DEFAULT_MAX_TURNS,
                  value |-> score_hybrid(args.guess, args.words, args.word_length,
                                         turn, DEFAULT_MAX_TURNS)]
    /\ UNCHANGED <<args, solver, first_guess_cache, engine, pc, games, solvers>>

ScoresNext ==
    \/ CallScoreFrequency
    \/ CallScoreEntropy
    \/ CallScoreExpectedSize
    \/ CallScoreMinimax
    \/ CallScoreHybrid

SpecScores == ScoresInit /\ [][ScoresNext]_vars

----------------
(* The Solver driven through its methods, in any order and with any arguments. *)

\* Longest history between two resets.
MaxHistory == 2

\* The strategies the solvers of the model are built with.
ModelledStrategies == {"entropy"}

\* The word lists load_word_lists gives: guesses = list(words), or the sorted union
\* of the solutions and the allowed words.
WordLists ==
    UNION {{[solutions |-> sol, guesses |-> sol],
            [solutions |-> sol, guesses |-> Vocabulary]} :
              sol \in SubLists(Vocabulary) \ {<<>>}}

\* Lists handed to Solver(...) by a caller of its own, whose guesses leave out
\* solutions.
DirectLists ==
    {[solutions |-> Vocabulary, guesses |-> <<chalk, latch>>],
     [solutions |-> <<batch, hatch, latch>>, guesses |-> <<catch, chalk>>]}

\* The arguments of Solver(...).
SolverArgs(wl, strategy, hard_mode) ==
    [kind |-> "Solver", solutions |-> wl.solutions, guesses |-> wl.guesses,
     strategy |-> strategy, word_length |-> DEFAULT_WORD_LENGTH,
     max_turns |-> DEFAULT_MAX_TURNS, hard_mode |-> hard_mode]

\* The patterns a caller passes to update for guess g: what some word of the
\* vocabulary, a solution or not, would give.
FeedbackFor(g) ==
    {compute_pattern(g, w, DEFAULT_WORD_LENGTH) : w \in Range(Vocabulary)}

SolverInit ==
    /\ ret = NoCall
    /\ first_guess_cache = EmptyDict
    /\ engine = NoEngine /\ pc = "none" /\ games = 0 /\ solvers = 1
    /\ \E wl \in WordLists \cup DirectLists, strategy \in ModelledStrategies,
          hard_mode \in BOOLEAN :
          /\ args = SolverArgs(wl, strategy, hard_mode)
          /\ solver = Solver__init__(wl.solutions, wl.guesses, strategy,
                                     DEFAULT_WORD_LENGTH, DEFAULT_MAX_TURNS, hard_mode)

Reset ==
    /\ solver' = reset(solver)
    /\ ret' = [fn |-> "reset", updates |-> Len(solver.history)]
    /\ UNCHANGED <<args, first_guess_cache, engine, pc, games, solvers>>

\* update(g, p), on a history shorter than longest.
UpdateUpTo(longest) ==
    /\ Len(solver.history) < longest
    /\ \E g \in Range(Vocabulary) : \E p \in FeedbackFor(g) :
          /\ solver' = update(solver, g, p)
          /\ ret' = [fn |-> "update", guess |-> g, pattern |-> p,
                     \* the guess pool as the call found it
                     guess_pool |-> solver.guess_pool,
                     candidates |-> solver.candidates]
    /\ UNCHANGED <<args, first_guess_cache, engine, pc, games, solvers>>

Update == UpdateUpTo(MaxHistory)

BestGuess ==
    /\ \E turn \in {1, Len(solver.history) + 1} :
          \E r \in {best_guess(solver, turn, first_guess_cache)} :
              /\ ret' = [fn |-> "best_guess", turn |-> turn, raised |-> r.raised,
                         value |-> IF r.raised = "no" THEN r.value ELSE <<>>]
              /\ first_guess_cache' = r.cache
    /\ UNCHANGED <<args, solver, engine, pc, games, solvers>>

Next ==
    \/ Reset
    \/ Update
    \/ BestGuess

Spec == SolverInit /\ [][Next]_vars

----------------------------------------------------------------------------
(* One process: Solvers are constructed one after the other, each driven through *)
(* its methods, and all share _first_guess_cache.                                *)

\* Solvers constructed in one process.
MaxSolvers == 2

\* Longest history of a Solver of the process between two resets.
MaxProcessHistory == 1

\* Word lists whose guesses contain the solutions: the same solutions with and
\* without further allowed words.
ProcessLists ==
    {[solutions |-> <<batch, hatch, latch>>, guesses |-> <<banal, batch, hatch, latch>>],
     [solutions |-> <<batch, hatch, latch>>, guesses |-> <<batch, hatch, latch>>],
     [solutions |-> <<banal, catch, hatch>>, guesses |-> <<banal, batch, catch, hatch>>]}

\* The strategy names a caller passes: the registered ones and one that is not.
StrategyNames == Range(STRATEGIES) \cup {"nonexistent"}

ProcessInit ==
    /\ args = NoArgs
    /\ ret = NoCall
    /\ solver = NoSolver
    /\ first_guess_cache = EmptyDict
    /\ engine = NoEngine /\ pc = "none" /\ games = 0 /\ solvers = 0

\* Solver(solutions, guesses, strategy, hard_mode=hard_mode): get_strategy raises
\* before the object is bound to a name, and the caller keeps the Solver it had.
Construct ==
    /\ solvers < MaxSolvers
    /\ \E wl \in ProcessLists, strategy \in StrategyNames, hard_mode \in BOOLEAN :
          /\ args' = SolverArgs(wl, strategy, hard_mode)
          /\ \E s \in {get_strategy(strategy)} :
                IF s.raised = "no"
                THEN /\ solver' = Solver__init__(wl.solutions, wl.guesses, strategy,
                                                 DEFAULT_WORD_LENGTH, DEFAULT_MAX_TURNS,
                                                 hard_mode)
                     /\ solvers' = solvers + 1
                     /\ ret' = [fn |-> "Solver", raised |-> "no"]
                ELSE /\ ret' = [fn |-> "Solver", raised |-> s.raised,
                                unknown |-> s.unknown, available |-> s.available]
                     /\ UNCHANGED <<solver, solvers>>
    /\ UNCHANGED <<first_guess_cache, engine, pc, games>>

ProcessNext ==
    \/ Construct
    \/ solver # NoSolver /\ Reset
    \/ solver # NoSolver /\ UpdateUpTo(MaxProcessHistory)
    \/ solver # NoSolver /\ BestGuess

SpecProcess == ProcessInit /\ [][ProcessNext]_vars

----------------------------------------------------------------------------
(* The pool of a Solver: _select_guess_pool, and the two loops that score a pool, *)
(* called on Solvers as constructed.                                              *)

\* Longest pool scored.
MaxPool == 3

\* The words of the pools scored, candidates or not.
PoolWords == {abide, banal, batch, chalk, hatch}

\* Short lists: the pool is any list of one to MaxPool words, repeats allowed, and
\* the candidates are none, two or three words.
ShortLists ==
    {[solutions |-> c, guesses |-> g] :
        c \in {<<>>, <<batch, hatch>>, <<batch, hatch, latch>>, <<batch, chalk, hatch>>},
        g \in ListsUpTo(PoolWords, MaxPool) \ {<<>>}}

\* The i-th word of a long sorted word list: i written with the letters a..z.
NthWord(i) ==
    [j \in 1..DEFAULT_WORD_LENGTH |->
        ORD_A + ((i \div Pow(26, DEFAULT_WORD_LENGTH - j)) % 26)]

\* Long lists: n solutions, the first n of m guesses, on both sides of the limits of
\* _select_guess_pool.
LongLists ==
    {[solutions |-> [i \in 1..n |-> NthWord(i)], guesses |-> [i \in 1..m |-> NthWord(i)]] :
        n \in {200, 300, 301}, m \in {6644, 6666, 6667, 10000, 10001}}

PoolsInit ==
    /\ ret = NoCall
    /\ first_guess_cache = EmptyDict
    /\ engine = NoEngine /\ pc = "none" /\ games = 0 /\ solvers = 1
    /\ \E wl \in ShortLists \cup LongLists, strategy \in Range(STRATEGIES) :
          /\ args = SolverArgs(wl, strategy, FALSE)
          /\ solver = Solver__init__(wl.solutions, wl.guesses, strategy,
                                     DEFAULT_WORD_LENGTH, DEFAULT_MAX_TURNS, FALSE)

\* self._select_guess_pool(turn)
CallSelectGuessPool ==
    /\ \E turn \in {1, 2} :
          ret' = [fn |-> "_select_guess_pool", turn |-> turn,
                  value |-> select_guess_pool(solver, turn)]
    /\ UNCHANGED <<args, solver, first_guess_cache, engine, pc, games, solvers>>

\* self._score_pool(self.guess_pool, turn)
CallScorePool ==
    /\ solver.strategy_name # "frequency"
    /\ Len(solver.guess_pool) <= MaxPool
    /\ \E turn \in {1, DEFAULT_MAX_TURNS} :
          ret' = [fn |-> "_score_pool", turn |-> turn,
                  value |-> score_pool(solver, solver.guess_pool, turn)]
    /\ UNCHANGED <<args, solver, first_guess_cache, engine, pc, games, solvers>>

\* score_frequency_batch(self.guess_pool, self.candidates, self.word_length)
CallScoreFrequencyBatch ==
    /\ solver.strategy_name = "frequency"
    /\ Len(solver.guess_pool) <= MaxPool
    /\ ret' = [fn |-> "score_frequency_batch", turn |-> 1,
               value |-> score_frequency_batch(solver.guess_pool, solver.candidates,
                                               solver.word_length)]
    /\ UNCHANGED <<args, solver, first_guess_cache, engine, pc, games, solvers>>

PoolsNext ==
    \/ CallSelectGuessPool
    \/ CallScorePool
    \/ CallScoreFrequencyBatch

SpecPools == PoolsInit /\ [][PoolsNext]_vars

----------------------------------------------------------------------------
(* A WordleEngine driven through guess, with any words in any order. *)

\* Largest max_turns of an engine.
EngineMaxTurns == 3

\* The valid_guesses a caller passes: None, an empty list, a list of two words.
ValidLists ==
    {None, Some(<<>>), Some(<<Repeat(ORD_A, WordLen), Repeat(ORD_A + 1, WordLen)>>)}

\* The words a caller passes to guess: those of word_length letters and a longer one.
GuessWords == SmallWords \cup {Repeat(ORD_A, WordLen + 1)}

EngineInit ==
    /\ ret = NoCall
    /\ solver = NoSolver
    /\ first_guess_cache = EmptyDict
    /\ pc = "none" /\ games = 0 /\ solvers = 0
    /\ \E secret \in SmallWords, max_turns \in 1..EngineMaxTurns, hard_mode \in BOOLEAN,
          valid_guesses \in ValidLists :
          /\ args = [kind |-> "WordleEngine", secret |-> secret, word_length |-> WordLen,
                     max_turns |-> max_turns, hard_mode |-> hard_mode,
                     valid_guesses |-> valid_guesses]
          /\ engine = WordleEngine__init__(secret, WordLen, max_turns, hard_mode,
                                           valid_guesses)

\* engine.guess(word)
Guess ==
    /\ \E word \in GuessWords : \E r \in {guess(engine, word)} :
          /\ engine' = r.engine
          /\ ret' = [fn |-> "guess", word |-> word, raised |-> r.raised,
                     result |-> IF r.raised = "no" THEN r.result ELSE <<>>]
    /\ UNCHANGED <<args, solver, first_guess_cache, pc, games, solvers>>

\* engine.state
ReadState ==
    /\ ret' = [fn |-> "state", state |-> engine.state]
    /\ UNCHANGED <<args, solver, first_guess_cache, engine, pc, games, solvers>>

EngineNext ==
    \/ Guess
    \/ ReadState

SpecEngine == EngineInit /\ [][EngineNext]_vars

----------------------------------------------------------------------------
(* Games: run_benchmark builds one Solver and, for each secret, a WordleEngine with *)
(* the solver's max_turns and hard_mode, and calls engine.play_game(solver).        *)

\* Games played with one Solver.
MaxGames == 2

GameInit ==
    /\ ret = NoCall
    /\ first_guess_cache = EmptyDict
    /\ engine = NoEngine /\ pc = "next_secret" /\ games = 0 /\ solvers = 1
    /\ \E wl \in WordLists, strategy \in ModelledStrategies, hard_mode \in BOOLEAN :
          /\ args = SolverArgs(wl, strategy, hard_mode)
          /\ solver = Solver__init__(wl.solutions, wl.guesses, strategy,
                                     DEFAULT_WORD_LENGTH, DEFAULT_MAX_TURNS, hard_mode)

\* for secret in solutions: engine = WordleEngine(...); engine.play_game(solver)
\* up to the loop: solver.reset()
PlayGame ==
    /\ pc = "next_secret" /\ games < MaxGames
    /\ \E secret \in Range(solver.initial_solutions) :
          engine' = WordleEngine__init__(secret, solver.word_length, solver.max_turns,
                                         solver.hard_mode, None)
    /\ solver' = reset(solver)
    /\ games' = games + 1
    /\ pc' = "play_game"
    /\ ret' = [fn |-> "reset", updates |-> Len(solver.history)]
    /\ UNCHANGED <<args, first_guess_cache, solvers>>

\* The rest of one pass of the loop once best_guess has returned bg and guess g.
Submit(bg, g) ==
    /\ first_guess_cache' = bg.cache
    /\ engine' = g.engine
    /\ IF g.raised = "no"
       THEN /\ solver' = update(solver, bg.value, g.result.pattern)
            /\ ret' = [fn |-> "update", guess |-> bg.value, pattern |-> g.result.pattern,
                       guess_pool |-> solver.guess_pool, candidates |-> solver.candidates]
            /\ pc' = "play_game"
       ELSE /\ solver' = solver
            /\ ret' = [fn |-> "guess", raised |-> g.raised, word |-> bg.value]
            /\ pc' = "raised"

\* One pass of the loop of play_game: best_guess, guess, update.  An exception of
\* best_guess or guess ends play_game and is not caught by run_benchmark.
Turn ==
    /\ pc = "play_game" /\ ~engine.state.finished
    /\ \E bg \in {best_guess(solver, turns_used(engine.state) + 1, first_guess_cache)} :
          IF bg.raised = "no"
          THEN \E g \in {guess(engine, bg.value)} : Submit(bg, g)
          ELSE /\ ret' = [fn |-> "best_guess", turn |-> turns_used(engine.state) + 1,
                          raised |-> bg.raised, value |-> <<>>]
               /\ pc' = "raised"
               /\ UNCHANGED <<solver, first_guess_cache, engine>>
    /\ UNCHANGED <<args, games, solvers>>

\* play_game returns the state of the finished game.
GameOver ==
    /\ pc = "play_game" /\ engine.state.finished
    /\ ret' = [fn |-> "play_game", state |-> engine.state]
    /\ pc' = "next_secret"
    /\ UNCHANGED <<args, solver, first_guess_cache, engine, games, solvers>>

GameNext ==
    \/ PlayGame
    \/ Turn
    \/ GameOver

SpecGame == GameInit /\ [][GameNext]_vars

----------------------------------------------------------------------------
(* Games of any caller: engine.play_game(solver) on a fresh engine of any max_turns, *)
(* with the Solver's hard_mode, while the process may hold the first guess of an     *)
(* earlier Solver.                                                                   *)

\* The max_turns of the engines.
PlayTurns == {1, 2, DEFAULT_MAX_TURNS}

\* The word lists of the Solvers that play: those load_word_lists gives, with three
\* solutions or more, and lists whose guesses leave out solutions.
PlayLists ==
    {wl \in WordLists : Len(wl.solutions) >= 3} \cup DirectLists \cup
    {[solutions |-> <<batch, hatch, latch>>, guesses |-> <<catch>>]}

\* _first_guess_cache after best_guess(1) of a Solver with the same solutions and
\* strategy and the whole vocabulary and banal as guesses.
EarlierFirstGuess(wl, strategy) ==
    best_guess(Solver__init__(wl.solutions, <<banal>> \o Vocabulary, strategy,
                              DEFAULT_WORD_LENGTH, DEFAULT_MAX_TURNS, FALSE),
               1, EmptyDict).cache

PlayInit ==
    /\ ret = NoCall
    /\ engine = NoEngine /\ pc = "next_secret" /\ games = 0 /\ solvers = 1
    /\ \E wl \in PlayLists, strategy \in Range(STRATEGIES), hard_mode \in BOOLEAN :
          /\ args = SolverArgs(wl, strategy, hard_mode)
          /\ solver = Solver__init__(wl.solutions, wl.guesses, strategy,
                                     DEFAULT_WORD_LENGTH, DEFAULT_MAX_TURNS, hard_mode)
          /\ first_guess_cache \in {EmptyDict, EarlierFirstGuess(wl, strategy)}

\* engine = WordleEngine(secret, max_turns=max_turns, hard_mode=solver.hard_mode);
\* engine.play_game(solver) up to the loop: solver.reset()
StartGame ==
    /\ pc = "next_secret" /\ games < MaxGames
    /\ \E secret \in Range(solver.initial_solutions), max_turns \in PlayTurns :
          engine' = WordleEngine__init__(secret, solver.word_length, max_turns,
                                         solver.hard_mode, None)
    /\ solver' = reset(solver)
    /\ games' = games + 1
    /\ pc' = "play_game"
    /\ ret' = [fn |-> "reset", updates |-> Len(solver.history)]
    /\ UNCHANGED <<args, first_guess_cache, solvers>>

PlayNext ==
    \/ StartGame
    \/ Turn
    \/ GameOver

SpecPlay == PlayInit /\ [][PlayNext]_vars

----------------------------------------------------------------------------
(* Properties of the pattern codec. *)

\* Tile i (0-based) of pattern p read as a base-3 number of L digits, position 0
\* the most significant.
Digit(p, i, L) == (p \div Pow(3, L - 1 - i)) % 3

\* The pattern whose base-3 digits, most significant first, are the tiles.
Encoded(tiles) ==
    LET L == Len(tiles)
        RECURSIVE Sum(_)
        Sum(i) == IF i > L THEN 0 ELSE tiles[i] * Pow(3, L - i) + Sum(i + 1)
    IN  Sum(1)

\* sum(d.values())
RECURSIVE SumValues(_, _)
SumValues(d, keys) ==
    IF keys = {} THEN 0
    ELSE LET k == CHOOSE x \in keys : TRUE IN d[k] + SumValues(d, keys \ {k})

\* The positions k of words whose pattern against the guess g is p.
Matching(g, words, p, L) ==
    {k \in 1..Len(words) : compute_pattern(g, words[k], L) = p}

\* The rule of the tiles, position by position (1-based).
TileRule(g, s, L, i) ==
    IF g[i] = s[i] THEN GREEN
    ELSE IF Cardinality({k \in 1..L : s[k] = g[i] /\ g[k] # s[k]})
              > Cardinality({j \in 1..(i - 1) : g[j] = g[i] /\ g[j] # s[j]})
         THEN YELLOW
         ELSE GREY

\* C1: compute_pattern(g, s, L) decodes, base 3 and position 0 most significant, to
\* tiles where position i is GREEN exactly when g[i] = s[i], a non-green position is
\* YELLOW exactly when the occurrences of g[i] in s not matched green outnumber the
\* non-green positions j < i with g[j] = g[i], and GREY otherwise; with the five
\* duplicate-letter fixtures of the specification.
C1_ConsumeOnce ==
    /\ ret.fn = "compute_pattern" =>
          /\ ret.value \in 0..(Pow(3, args.word_length) - 1)
          /\ \A i \in 1..args.word_length :
                Digit(ret.value, i - 1, args.word_length)
                    = TileRule(args.guess, ret.secret, args.word_length, i)
    /\ compute_pattern(speed, abide, 5) = Encoded(<<0, 0, 1, 0, 1>>)
    /\ compute_pattern(llama, world, 5) = Encoded(<<1, 0, 0, 0, 0>>)
    /\ compute_pattern(abyss, banal, 5) = Encoded(<<1, 1, 0, 0, 0>>)
    /\ compute_pattern(proof, afoot, 5) = Encoded(<<0, 0, 2, 2, 1>>)
    /\ compute_pattern(eeeee, geese, 5) = Encoded(<<0, 2, 2, 0, 2>>)

\* A guess whose letter is in the secret and still gets GREY: the secret's
\* occurrences were consumed by earlier tiles.
C1_Witness ==
    /\ ret.fn = "compute_pattern"
    /\ \E i \in 1..args.word_length :
          /\ Digit(ret.value, i - 1, args.word_length) = GREY
          /\ \E k \in 1..args.word_length : ret.secret[k] = args.guess[i]

\* C4: filter_candidates(S, g, p, L) is exactly the members w of S with
\* compute_pattern(g, w, L) = p, in the order and with the multiplicity of S (the
\* empty list when none matches), and S is as it was.
C4_FilterExact ==
    ret.fn = "filter_candidates" =>
        /\ ret.value = SelectSeq(args.words,
                          LAMBDA w : compute_pattern(args.guess, w, args.word_length)
                                        = ret.pattern)
        /\ (Matching(args.guess, args.words, ret.pattern, args.word_length) = {}
               => ret.value = <<>>)

\* A repeated word is kept twice, and a list is cut to one member.
C4_Witness ==
    /\ ret.fn = "filter_candidates"
    /\ Len(args.words) = 2
    /\ \/ Len(ret.value) = 2 /\ args.words[1] = args.words[2]
       \/ Len(ret.value) = 1 /\ ret.value[1] = args.words[2]

\* C5: compute_pattern_batch(g, S, L) is the list, in the order of S and as long as
\* S, of compute_pattern(g, s, L) for each s of S.
C5_BatchElementwise ==
    ret.fn = "compute_pattern_batch" =>
        /\ Len(ret.value) = Len(args.words)
        /\ \A k \in 1..Len(args.words) :
              ret.value[k] = compute_pattern(args.guess, args.words[k], args.word_length)

\* A batch over two words with different patterns.
C5_Witness ==
    /\ ret.fn = "compute_pattern_batch"
    /\ Len(ret.value) = 2
    /\ ret.value[1] # ret.value[2]

\* C6: bucket_sizes and bucket_by_pattern describe the same partition of S: the same
\* keys, bucket_sizes[p] = len(bucket_by_pattern[p]) = the number of members of S
\* with pattern p, and the sizes sum to |S|.
C6_SamePartition ==
    ret.fn \in {"bucket_sizes", "bucket_by_pattern"} =>
        LET L     == args.word_length
            sizes == bucket_sizes(args.guess, args.words, L)
            lists == bucket_by_pattern(args.guess, args.words, L)
        IN  /\ ret.value = IF ret.fn = "bucket_sizes" THEN sizes ELSE lists
            /\ DOMAIN sizes = DOMAIN lists
            /\ DOMAIN sizes =
                  {compute_pattern(args.guess, args.words[k], L) : k \in 1..Len(args.words)}
            /\ \A p \in DOMAIN sizes :
                  /\ sizes[p] = Len(lists[p])
                  /\ sizes[p] = Cardinality(Matching(args.guess, args.words, p, L))
                  /\ lists[p] = SelectSeq(args.words,
                                    LAMBDA w : compute_pattern(args.guess, w, L) = p)
            /\ SumValues(sizes, DOMAIN sizes) = Len(args.words)

\* Two different words fall in one bucket.
C6_Witness ==
    /\ ret.fn = "bucket_sizes"
    /\ Len(args.words) = 2
    /\ args.words[1] # args.words[2]
    /\ \E p \in DOMAIN ret.value : ret.value[p] = 2

\* C7: compute_pattern(w, w, L) is the all-green pattern 3^L - 1, which is
\* all_green_pattern(L), and compute_pattern(g, s, L) is that pattern only when g = s.
C7_AllGreenIffEqual ==
    ret.fn = "compute_pattern" =>
        /\ all_green_pattern(args.word_length) = Pow(3, args.word_length) - 1
        /\ all_green_pattern(args.word_length) = Encoded(Repeat(GREEN, args.word_length))
        /\ (ret.value = all_green_pattern(args.word_length)) <=> (args.guess = ret.secret)

\* A word against itself.
C7_Witness ==
    /\ ret.fn = "compute_pattern"
    /\ args.guess = ret.secret
    /\ ret.value = Pow(3, args.word_length) - 1

\* C8: the encoding is a base-3 bijection, position 0 the most significant digit:
\* tiles_to_pattern(t) lies in [0, 3^L - 1] and decodes back to t, and every p of
\* [0, 3^L - 1] decodes to L tiles that encode back to p.
C8_CodecBijection ==
    /\ ret.fn = "tiles_to_pattern" =>
          /\ ret.value \in 0..(Pow(3, args.word_length) - 1)
          /\ ret.value = Encoded(args.tiles)
          /\ pattern_to_tiles(ret.value, args.word_length) = args.tiles
    /\ ret.fn = "pattern_to_tiles" =>
          /\ ret.value \in [1..args.word_length -> {GREY, YELLOW, GREEN}]
          /\ \A i \in 1..args.word_length :
                ret.value[i] = Digit(args.pattern, i - 1, args.word_length)
          /\ tiles_to_pattern(ret.value) = args.pattern

\* Tiles that are not a palindrome, encoded: the digit order shows.
C8_Witness ==
    /\ ret.fn = "tiles_to_pattern"
    /\ args.tiles[1] # args.tiles[args.word_length]
    /\ ret.value > 0

----------------------------------------------------------------------------
(* Properties of the strategies. *)

\* The size of the bucket of each member of S, member by member.
BucketOf(g, S, L) ==
    [k \in 1..Len(S) |->
        Cardinality(Matching(g, S, compute_pattern(g, S[k], L), L))]

\* sum(seq), max(seq)
RECURSIVE SumSeq(_)
SumSeq(seq) == IF seq = <<>> THEN 0 ELSE Head(seq) + SumSeq(Tail(seq))
MaxSeq(seq) == CHOOSE x \in Range(seq) : \A y \in Range(seq) : y <= x

\* log2(n) in units.
Log2(n) == C_LOG2_C[n] \div n

C17_MinimaxIsLargestBucket ==
    ret.fn = "score_minimax" =>
        LET n == Len(args.words)
        IN  /\ ret.value.finite
            /\ n = 0 => ret.value.v = 0
            /\ n = 1 => ret.value.v = -SCALE
            /\ n >= 1 =>
                  /\ ret.value.v =
                        -SCALE * MaxSeq(BucketOf(args.guess, args.words, args.word_length))
                  /\ -n * SCALE <= ret.value.v /\ ret.value.v <= -SCALE

\* Four candidates whose largest bucket holds three.
C17_Witness ==
    /\ ret.fn = "score_minimax"
    /\ Len(args.words) = 4
    /\ ret.value.v = -3 * SCALE

\* C18: score_expected_size(g, S) is 0 when |S| <= 1 and otherwise minus the sum of
\* the squared bucket sizes over |S|, which lies between -|S| and -1.
C18_ExpectedSize ==
    ret.fn = "score_expected_size" =>
        LET n == Len(args.words)
            \* each member counts the size of its bucket: the sum of the squares
            sum_sq == SumSeq(BucketOf(args.guess, args.words, args.word_length))
        IN  /\ ret.value.finite
            /\ n <= 1 => ret.value.v = 0
            /\ n > 1 =>
                  /\ ret.value.v = -Ratio(sum_sq, n, SCALE)
                  /\ ret.value.v <= 0
                  /\ -n * SCALE <= ret.value.v /\ ret.value.v <= -SCALE

\* Buckets of 3, 1 and 1: the score is -11/5.
C18_Witness ==
    /\ ret.fn = "score_expected_size"
    /\ Len(args.words) = 5
    /\ ret.value.v = -(11 * SCALE) \div 5

\* The base score of score_hybrid: entropy while more than two turns are left,
\* minimax after.
HybridBase(g, S, L, turn, max_turns) ==
    IF max_turns - turn + 1 > 2 THEN score_entropy(g, S, L) ELSE score_minimax(g, S, L)

\* C19: score_hybrid(g, S, turn, max_turns) is the entropy score when
\* max_turns - turn + 1 > 2 and the minimax score otherwise, plus 1e-6 exactly when
\* g is in S; and the 1e-6 never reverses the order of two guesses whose base scores
\* differ.
C19_EpsilonOnlyBreaksTies ==
    ret.fn = "score_hybrid" =>
        LET L == args.word_length
            base == HybridBase(args.guess, args.words, L, ret.turn, ret.max_turns)
        IN  /\ ret.value.v =
                  base.v + (IF args.guess \in Range(args.words) THEN EPSILON ELSE 0)
            /\ \A g2 \in Range(Vocabulary) \cup {speed} :
                  LET base2 == HybridBase(g2, args.words, L, ret.turn, ret.max_turns)
                      hybrid2 == score_hybrid(g2, args.words, L, ret.turn, ret.max_turns)
                  IN  /\ base.v < base2.v => ret.value.v < hybrid2.v
                      /\ base.v > base2.v => ret.value.v > hybrid2.v

----------------------------------------------------------------------------
(* Properties of the Solver. *)

\* Word w would have given every pattern of the history.
ConsistentWith(w, history, L) ==
    \A k \in 1..Len(history) : compute_pattern(history[k][1], w, L) = history[k][2]

\* a can be had from b by deleting members.
RECURSIVE IsSubsequence(_, _)
IsSubsequence(a, b) ==
    IF a = <<>> THEN TRUE
    ELSE IF b = <<>> THEN FALSE
    ELSE IF Head(a) = Head(b) THEN IsSubsequence(Tail(a), Tail(b))
    ELSE IsSubsequence(a, Tail(b))

\* C2: when every pattern passed to update since construction or the last reset is
\* compute_pattern(guess, s) for one secret s of the initial solutions, s is still a
\* candidate, so the candidates are not empty and best_guess does not raise.
C2_SecretSurvives ==
    \A s \in Range(solver.initial_solutions) :
        ConsistentWith(s, solver.history, solver.word_length) =>
            /\ s \in Range(solver.candidates)
            /\ solver.candidates # <<>>
            /\ ret.fn = "best_guess" => ret.raised # "ValueError"

\* best_guess answers after two honest updates that each removed a candidate.
C2_Witness ==
    /\ ret.fn = "best_guess" /\ ret.raised = "no"
    /\ Len(solver.history) = 2
    /\ solver.history[1][1] # solver.history[2][1]
    /\ Len(solver.candidates) < Len(solver.initial_solutions) - 1
    /\ \E s \in Range(solver.initial_solutions) :
          ConsistentWith(s, solver.history, solver.word_length)

\* C3: the candidates are the initial solutions, in their order, that agree with
\* every (guess, pattern) of the history since construction or the last reset, and
\* an update leaves a subsequence of the candidates it found.
C3_CandidatesAreFilteredSolutions ==
    /\ solver.candidates =
          SelectSeq(solver.initial_solutions,
                    LAMBDA w : ConsistentWith(w, solver.history, solver.word_length))
    /\ ret.fn = "update" =>
          /\ IsSubsequence(solver.candidates, ret.candidates)
          /\ Len(solver.candidates) <= Len(ret.candidates)

\* Two updates with different patterns, each of which removed candidates but not all.
C3_Witness ==
    /\ ret.fn = "update"
    /\ Len(solver.history) = 2
    /\ solver.history[1][2] # solver.history[2][2]
    /\ Len(solver.candidates) > 0
    /\ Len(solver.candidates) < Len(ret.candidates)
    /\ Len(ret.candidates) < Len(solver.initial_solutions)

\* C11: when the guesses given to Solver(...) hold every word of the solutions, then
\* after any updates and resets, in hard or normal mode, every candidate is in the
\* guess pool.
C11_CandidatesInPool ==
    Range(args.solutions) \subseteq Range(args.guesses) =>
        Range(solver.candidates) \subseteq Range(solver.guess_pool)

\* A hard-mode update that cut both the candidates and a longer guess pool.
C11_Witness ==
    /\ Range(args.solutions) \subseteq Range(args.guesses)
    /\ solver.hard_mode
    /\ ret.fn = "update"
    /\ solver.candidates # <<>>
    /\ Len(solver.candidates) < Len(ret.candidates)
    /\ Len(solver.guess_pool) < Len(ret.guess_pool)
    /\ Len(solver.candidates) < Len(solver.guess_pool)

\* C12: after any updates, reset makes the candidates the solutions given to
\* Solver(...), the guess pool the guesses given to it and the history empty, which
\* is the Solver as constructed; a second reset changes nothing.
C12_ResetRestores ==
    ret.fn = "reset" =>
        /\ solver.candidates = args.solutions
        /\ solver.guess_pool = args.guesses
        /\ solver.history = <<>>
        /\ solver = Solver__init__(args.solutions, args.guesses, args.strategy,
                                   args.word_length, args.max_turns, args.hard_mode)
        /\ reset(solver) = solver

\* A reset of a hard-mode Solver after two updates.
C12_Witness ==
    /\ ret.fn = "reset"
    /\ ret.updates = 2
    /\ solver.hard_mode
    /\ Len(args.guesses) > Len(args.solutions)

\* C10: in hard mode the guess pool after an update is the pool the update found,
\* filtered by its (guess, pattern), and is no longer than it was; in normal mode
\* the update leaves the guess pool as it was.
C10_HardModePoolFiltered ==
    ret.fn = "update" =>
        IF solver.hard_mode
        THEN /\ solver.guess_pool =
                   SelectSeq(ret.guess_pool,
                             LAMBDA w : compute_pattern(ret.guess, w, solver.word_length)
                                            = ret.pattern)
             /\ Len(solver.guess_pool) <= Len(ret.guess_pool)
        ELSE solver.guess_pool = ret.guess_pool

\* A hard-mode update that removed words of the pool which are not solutions.
C10_Witness ==
    /\ ret.fn = "update"
    /\ solver.hard_mode
    /\ 0 < Len(solver.guess_pool)
    /\ Len(solver.guess_pool) < Len(ret.guess_pool)
    /\ Len(solver.candidates) < Len(solver.guess_pool)

----------------------------------------------------------------------------
(* Properties of the engine. *)

\* An accepted guess r revealed position i (0-based) GREEN, or GREEN or YELLOW.
RevealedGreen(r, i) == Digit(r.pattern, i, Len(r.guess)) = GREEN
Revealed(r, i) == Digit(r.pattern, i, Len(r.guess)) \in {GREEN, YELLOW}

\* The number of copies of letter in word.
Copies(word, letter) == Cardinality({i \in 1..Len(word) : word[i] = letter})

\* word breaks what the accepted guesses revealed: a GREEN position has another
\* letter, or a letter has fewer copies than the GREEN and YELLOW tiles one guess
\* gave it.
BreaksRevealed(guesses, word) ==
    \E k \in 1..Len(guesses) :
        LET r == guesses[k]
        IN  \/ \E i \in 1..Len(word) : RevealedGreen(r, i - 1) /\ word[i] # r.guess[i]
            \/ \E letter \in Range(r.guess) :
                   Copies(word, letter) <
                       Cardinality({i \in 1..Len(r.guess) :
                                       r.guess[i] = letter /\ Revealed(r, i - 1)})

\* C22: after any accepted guesses, with max_turns >= 1, the i-th is reported with
\* turn = i, won holds exactly when an accepted guess was the secret (all green),
\* finished exactly when won or turns_used >= max_turns, won implies finished, and
\* turns_used is never above max_turns.
C22_GameStateInvariant ==
    (engine # NoEngine /\ engine.max_turns >= 1) =>
        LET st == engine.state
            n == turns_used(st)
        IN  /\ \A i \in 1..n : st.guesses[i].turn = i
            /\ \A i \in 1..n :
                  /\ st.guesses[i].is_correct <=> st.guesses[i].guess = engine.secret
                  /\ st.guesses[i].is_correct <=>
                        st.guesses[i].pattern = Pow(3, engine.word_length) - 1
            /\ st.won <=> \E i \in 1..n : st.guesses[i].guess = engine.secret
            /\ st.finished <=> (st.won \/ n >= st.max_turns)
            /\ st.won => st.finished
            /\ n <= st.max_turns
            /\ (ret.fn = "guess" /\ ret.raised = "no") =>
                  ret.result = st.guesses[n] /\ ret.result.turn = n

\* A game of three turns is lost at its third guess.
C22_Witness ==
    /\ engine # NoEngine
    /\ ret.fn = "guess" /\ ret.raised = "no"
    /\ engine.max_turns = 3 /\ turns_used(engine.state) = 3
    /\ engine.state.finished /\ ~engine.state.won

\* C23: guess raises ValueError when the game is finished, when the word has another
\* length, when a list of valid guesses was supplied and the word is not in it, or
\* when a hard-mode constraint is broken; the engine is then left as it was.
C23_RejectedGuess ==
    [][ret'.fn = "guess" =>
         /\ (\/ engine.state.finished
             \/ Len(ret'.word) # engine.word_length
             \/ /\ ~args.valid_guesses.none
                /\ ret'.word \notin Range(args.valid_guesses.words)
             \/ /\ Len(ret'.word) = engine.word_length
                /\ engine.hard_mode
                /\ BreaksRevealed(engine.state.guesses, ret'.word))
            => ret'.raised = "ValueError"
         /\ ret'.raised = "ValueError" => engine' = engine]_vars

\* C24: in a hard-mode engine with a guess accepted, a word is rejected by the
\* hard-mode check exactly when it breaks what the accepted guesses revealed; a guess
\* that passes the other checks of guess raises exactly then.
C24_HardModeCheck ==
    (engine # NoEngine /\ engine.hard_mode /\ engine.state.guesses # <<>>) =>
        /\ \A word \in SmallWords :
              validate_hard_mode(engine, word)
                  <=> ~BreaksRevealed(engine.state.guesses, word)
        /\ (/\ ret.fn = "guess"
            /\ ret.raised = "ValueError"
            /\ ~engine.state.finished
            /\ Len(ret.word) = engine.word_length
            /\ engine.valid_guesses.none)
           => BreaksRevealed(engine.state.guesses, ret.word)

\* A guess with the green letters in place is rejected after two accepted guesses
\* for want of a copy of a letter.
C24_Witness ==
    /\ engine # NoEngine /\ engine.hard_mode
    /\ ~engine.state.finished /\ turns_used(engine.state) = 2
    /\ engine.valid_guesses.none
    /\ ret.fn = "guess" /\ ret.raised = "ValueError"
    /\ Len(ret.word) = engine.word_length
    /\ \A pos \in DOMAIN engine.known_green : ret.word[pos + 1] = engine.known_green[pos]
    /\ DOMAIN engine.known_green # {}

----------------------------------------------------------------------------
(* Properties of the Solvers of one process. *)

\* C13: best_guess on an empty candidate list raises ValueError, whatever the
\* strategy, the turn and the content of the first-guess cache, and leaves the
\* candidates, the guess pool, the history and the cache as they were.
C13_EmptyCandidatesRaise ==
    [][(/\ solver # NoSolver
        /\ solver.candidates = <<>>
        /\ ret'.fn = "best_guess")
       => /\ ret'.raised = "ValueError"
          /\ solver'.candidates = solver.candidates
          /\ solver'.guess_pool = solver.guess_pool
          /\ solver'.history = solver.history
          /\ first_guess_cache' = first_guess_cache]_vars

\* best_guess has raised on the empty list of a frequency Solver with a first guess
\* in the cache.
C13_Witness ==
    /\ solver # NoSolver
    /\ solver.candidates = <<>>
    /\ solver.strategy_name = "frequency"
    /\ ret.fn = "best_guess" /\ ret.raised = "ValueError"
    /\ DOMAIN first_guess_cache # {}

\* C14: for every registered strategy and every Solver whose guesses contain its
\* solutions, best_guess with candidates left returns a word of that Solver's
\* current guess pool, whatever the Solvers before it have done.
C14_GuessInPool ==
    (/\ solver # NoSolver
     /\ ret.fn = "best_guess"
     /\ Range(solver.initial_solutions) \subseteq Range(solver.initial_guesses)
     /\ solver.candidates # <<>>)
    => /\ ret.raised = "no"
       /\ ret.value \in Range(solver.guess_pool)

\* C15: Solver(...) with a name that is not registered raises KeyError with the
\* registered names in its message; no Solver is made, with that name or another.
C15_UnknownStrategyRaises ==
    [][(/\ ret'.fn = "Solver"
        /\ args'.strategy \notin
              {"frequency", "entropy", "expected_size", "minimax", "hybrid"})
       => /\ ret'.raised = "KeyError"
          /\ ret'.unknown = args'.strategy
          /\ Range(ret'.available) =
                {"frequency", "entropy", "expected_size", "minimax", "hybrid"}
          /\ solver' = solver
          /\ solvers' = solvers]_vars

\* A construction has failed on an unknown name after a Solver was made.
C15_Witness ==
    /\ ret.fn = "Solver" /\ ret.raised = "KeyError"
    /\ args.strategy = "nonexistent"
    /\ solver # NoSolver

\* g scores no more than w by score_frequency on the candidates of self.
NoBetterByFrequency(self, g, w) ==
    ~Greater(score_frequency(g, self.candidates, self.word_length),
             score_frequency(w, self.candidates, self.word_length))

\* C20 as stated: with frequency and three candidates or more the word returned is
\* a top-scoring word of the whole guess pool.
C20_AsStated ==
    (/\ solver # NoSolver
     /\ ret.fn = "best_guess"
     /\ solver.strategy_name = "frequency"
     /\ Len(solver.candidates) >= 3)
    => /\ ret.raised = "no"
       /\ \A g \in Range(solver.guess_pool) : NoBetterByFrequency(solver, g, ret.value)

\* C20: with frequency and three candidates or more the word returned is a
\* candidate, and a top-scoring word of the candidates.
C20_FrequencyScoresCandidates ==
    (/\ solver # NoSolver
     /\ ret.fn = "best_guess"
     /\ solver.strategy_name = "frequency"
     /\ Len(solver.candidates) >= 3)
    => /\ ret.raised = "no"
       /\ ret.value \in Range(solver.candidates)
       /\ \A c \in Range(solver.candidates) : NoBetterByFrequency(solver, c, ret.value)

\* best_guess has returned for a frequency Solver with three candidates and a word
\* of the pool that is no candidate.
C20_Witness ==
    /\ solver # NoSolver
    /\ ret.fn = "best_guess" /\ ret.raised = "no"
    /\ solver.strategy_name = "frequency"
    /\ Len(solver.candidates) >= 3
    /\ Range(solver.guess_pool) \ Range(solver.candidates) # {}

----------------------------------------------------------------------------
(* Properties of the games. *)

\* The games of C9: at most five words, solutions and guesses alike, the entropy
\* strategy and six turns.
SmallUniverse ==
    /\ solver.strategy_name = "entropy"
    /\ solver.initial_guesses = solver.initial_solutions
    /\ Len(solver.initial_solutions) <= 5
    /\ solver.max_turns = DEFAULT_MAX_TURNS

\* C9: with at most five words as solutions and guesses and the entropy strategy,
\* every game of play_game, the first of a Solver or a later one, raises nothing and
\* ends won within max_turns = 6 turns: each pass of the loop has added one turn, a
\* game is never past six turns, and a finished game is a won game.
C9_SmallUniverseWins ==
    SmallUniverse =>
        /\ pc # "raised"
        /\ pc = "play_game" =>
              /\ Len(solver.history) = turns_used(engine.state)
              /\ turns_used(engine.state) <= DEFAULT_MAX_TURNS
              /\ engine.state.finished => engine.state.won
        /\ ret.fn = "play_game" =>
              /\ ret.state.finished /\ ret.state.won
              /\ turns_used(ret.state) <= DEFAULT_MAX_TURNS

\* The second game of a Solver, over five words, won at the third turn.
C9_Witness ==
    /\ SmallUniverse
    /\ Len(solver.initial_solutions) = 5
    /\ games = 2
    /\ ret.fn = "play_game" /\ ret.state.won
    /\ turns_used(ret.state) >= 3

\* C25: with three candidates or more, the word best_guess(turn) returns scores, by
\* the Solver's strategy on its candidates with this turn and its max_turns, no less
\* than any word of the pool _select_guess_pool chooses, on every call, those at
\* turn 1 after other Solvers of the process included.
C25_BestGuessIsTopScore ==
    (/\ solver # NoSolver
     /\ ret.fn = "best_guess" /\ ret.raised = "no"
     /\ Len(solver.candidates) >= 3)
    => \A g \in Range(select_guess_pool(solver, ret.turn)) :
           ~Greater(score_guess(solver, g, ret.turn),
                    score_guess(solver, ret.value, ret.turn))

\* C27: with one or two candidates best_guess returns the first candidate, for every
\* strategy and turn and whatever the cache holds, and the cache stays as it was.
C27_SmallCandidateSets ==
    [][(/\ solver # NoSolver
        /\ ret'.fn = "best_guess"
        /\ Len(solver.candidates) \in {1, 2})
       => /\ ret'.raised = "no"
          /\ ret'.value = solver.candidates[1]
          /\ first_guess_cache' = first_guess_cache]_vars

\* best_guess(1) has returned the first of two candidates while the cache holds a
\* first guess under the key of the Solver, another word.
C27_Witness ==
    /\ solver # NoSolver
    /\ ret.fn = "best_guess" /\ ret.turn = 1 /\ ret.raised = "no"
    /\ Len(solver.candidates) = 2
    /\ ret.value = solver.candidates[1]
    /\ <<solver.strategy_name, solver.word_length, Hash(solver.initial_solutions)>>
          \in DOMAIN first_guess_cache
    /\ first_guess_cache[<<solver.strategy_name, solver.word_length,
                            Hash(solver.initial_solutions)>>] # ret.value

\* The key of the first guess of a Solver.
CacheKey(self) == <<self.strategy_name, self.word_length, Hash(self.initial_solutions)>>

\* C29: the first best_guess(1) on the full initial candidates (three or more) stores
\* the word it chose under (strategy name, word_length, hash of the solutions);
\* every later best_guess(1) on full initial candidates with that key, of the same
\* Solver or another, returns the stored word and scores nothing; an entry is never
\* replaced; and at another turn or with fewer candidates the cache is not written
\* and the word returned does not depend on it.
C29_FirstGuessCache ==
    [][/\ \A k \in DOMAIN first_guess_cache :
             k \in DOMAIN first_guess_cache' /\ first_guess_cache'[k] = first_guess_cache[k]
       /\ ret'.fn # "best_guess" => first_guess_cache' = first_guess_cache
       /\ (solver # NoSolver /\ ret'.fn = "best_guess" /\ ret'.raised = "no") =>
             IF /\ ret'.turn = 1
                /\ Len(solver.candidates) = Len(solver.initial_solutions)
                /\ Len(solver.candidates) >= 3
             THEN IF CacheKey(solver) \in DOMAIN first_guess_cache
                  THEN /\ ret'.value = first_guess_cache[CacheKey(solver)]
                       /\ first_guess_cache' = first_guess_cache
                  ELSE first_guess_cache' =
                           Put(first_guess_cache, CacheKey(solver), ret'.value)
             ELSE /\ first_guess_cache' = first_guess_cache
                  /\ ret'.value = best_guess(solver, ret'.turn, EmptyDict).value]_vars

\* The second Solver of the process is handed the first guess of the first, a word
\* its own pool does not hold.
C29_Witness ==
    /\ solver # NoSolver /\ solvers = 2
    /\ ret.fn = "best_guess" /\ ret.turn = 1 /\ ret.raised = "no"
    /\ Len(solver.candidates) = Len(solver.initial_solutions)
    /\ CacheKey(solver) \in DOMAIN first_guess_cache
    /\ ret.value = first_guess_cache[CacheKey(solver)]
    /\ ret.value \notin Range(solver.guess_pool)

----------------------------------------------------------------------------
(* Properties of the pool of a Solver. *)

\* The positions of the pool whose word no word of the pool outscores.
TopOfPool(self, pool, turn) ==
    {k \in 1..Len(pool) :
        \A j \in 1..Len(pool) :
            ~Greater(score_guess(self, pool[j], turn), score_guess(self, pool[k], turn))}

\* Of the positions in top, those of candidates if there are any.
Preferred(self, pool, top) ==
    IF \E k \in top : pool[k] \in Range(self.candidates)
    THEN {k \in top : pool[k] \in Range(self.candidates)}
    ELSE top

\* The least member of a set of positions.
First(positions) == CHOOSE k \in positions : \A j \in positions : k <= j

\* C26: _score_pool and score_frequency_batch select a candidate when a word with
\* the top score is a candidate, and the earliest word of the pool among those with
\* the top score and the preferred candidacy.
C26_TieBreak ==
    (ret.fn \in {"_score_pool", "score_frequency_batch"}) =>
        LET pool == solver.guess_pool
            top == TopOfPool(solver, pool, ret.turn)
        IN  /\ top # {}
            /\ ret.value = pool[First(Preferred(solver, pool, top))]
            /\ (\E k \in top : pool[k] \in Range(solver.candidates))
                  => ret.value \in Range(solver.candidates)

\* The first word of the pool has the top score and is no candidate, and a candidate
\* with the same score is selected.
C26_Witness ==
    /\ ret.fn = "_score_pool"
    /\ 1 \in TopOfPool(solver, solver.guess_pool, ret.turn)
    /\ solver.guess_pool[1] \notin Range(solver.candidates)
    /\ ret.value \in Range(solver.candidates)

\* C28: for entropy, expected_size, minimax and hybrid with n >= 3 candidates the
\* pool is the candidates when n > 300, and otherwise the full guess pool exactly
\* when len(guess_pool) * n <= 2,000,000, the candidates when it is more.
C28_PoolSelection ==
    (/\ ret.fn = "_select_guess_pool"
     /\ solver.strategy_name \in {"entropy", "expected_size", "minimax", "hybrid"}
     /\ Len(solver.candidates) >= 3)
    => ret.value = IF Len(solver.candidates) > 300 THEN solver.candidates
                   ELSE IF Len(solver.guess_pool) * Len(solver.candidates) <= 2000000
                        THEN solver.guess_pool
                        ELSE solver.candidates

\* 200 candidates and 10000 guesses, a cost of 2,000,000: the full pool.
C28_Witness ==
    /\ ret.fn = "_select_guess_pool"
    /\ solver.strategy_name = "minimax"
    /\ Len(solver.candidates) = 200 /\ Len(solver.guess_pool) = 10000
    /\ ret.value = solver.guess_pool /\ ret.value # solver.candidates

----------------------------------------------------------------------------
(* Properties of the games of any caller. *)

\* The guesses of the Solver contain its solutions.
GuessesContainSolutions ==
    Range(solver.initial_solutions) \subseteq Range(solver.initial_guesses)

\* play_game has raised nothing, is within max_turns guesses, ends a game of
\* max_turns guesses none of which is the secret as finished and lost, and returns
\* a finished state.
PlayGameTerminates ==
    /\ pc # "raised"
    /\ pc = "play_game" =>
          /\ turns_used(engine.state) <= engine.max_turns
          /\ (/\ turns_used(engine.state) = engine.max_turns
              /\ \A i \in 1..turns_used(engine.state) :
                    engine.state.guesses[i].guess # engine.secret)
             => engine.state.finished /\ ~engine.state.won
    /\ ret.fn = "play_game" =>
          /\ ret.state.finished
          /\ turns_used(ret.state) <= ret.state.max_turns
          /\ ret.state.won \/ turns_used(ret.state) = ret.state.max_turns

\* C21 as stated: play_game on a fresh engine with max_turns >= 1, a secret of the
\* Solver's solutions, no list of valid guesses and the Solver's hard_mode ends
\* within max_turns guesses and returns a finished state, lost if no guess was the
\* secret, and raises nothing.
C21_AsStated == PlayGameTerminates

\* C21, amended: the same for a Solver whose guesses contain its solutions.
C21_PlayGameTerminates == GuessesContainSolutions => PlayGameTerminates

\* A game of two turns is returned lost.
C21_Witness ==
    /\ GuessesContainSolutions
    /\ ret.fn = "play_game"
    /\ ret.state.max_turns = 2 /\ turns_used(ret.state) = 2
    /\ ret.state.finished /\ ~ret.state.won

\* The words a Solver or a player may think of.
PlayWords == Range(Vocabulary) \cup {banal, world, speed, abide, llama, geese}

\* C30: in a game of play_game between a hard-mode Solver whose guesses contain its
\* solutions and a hard-mode engine, guess raises nothing, and every word
\* consistent under filter_candidates with the (guess, pattern) pairs so far passes
\* the hard-mode check of the engine.
C30_SolverPassesHardMode ==
    (solver.hard_mode /\ GuessesContainSolutions) =>
        /\ ~(pc = "raised" /\ ret.fn = "guess")
        /\ (pc = "play_game" /\ engine.state.guesses # <<>>) =>
              \A w \in PlayWords \cup Range(solver.guess_pool) :
                  ConsistentWith(w, solver.history, solver.word_length)
                      => validate_hard_mode(engine, w)

\* A hard-mode game at its third turn with a guess that was not the secret's.
C30_Witness ==
    /\ solver.hard_mode /\ GuessesContainSolutions
    /\ pc = "play_game" /\ engine.hard_mode
    /\ turns_used(engine.state) >= 3
    /\ DOMAIN engine.required_letters # {}

=============================================================================
